---- MODULE Spec2Model ----
(***************************************************************************)
(* Model of the veri-easy equivalence checker (src/src/check.rs and the    *)
(* data definitions of src/src/defs).                                      *)
(*                                                                         *)
(* Checker::new (preprocess) pairs the function records of two sources by  *)
(* signature, rewrites generic owning types to instantiated aliases and    *)
(* splits the pairs into constructors, getters and the Unchecked bucket.   *)
(* Checker::run_all then runs the configured components in order and moves *)
(* pairs from Unchecked to Verified or Tested.                             *)
(*                                                                         *)
(* Representation notes.  A Path is the sequence of its segments.  The     *)
(* string produced by joining identifiers with "::" is represented by the  *)
(* sequence of the joined identifiers: identifiers hold no ':' so two      *)
(* joined strings are equal exactly when the sequences are.  A function    *)
(* body is a token <<source number, position in the collected list>>.      *)
(***************************************************************************)
EXTENDS Integers, Sequences, FiniteSets, TLC

VARIABLES
    pc,                 \* position of the program: see PcValues
    src1_unique_funcs,  \* Checker.src1.unique_funcs
    src2_unique_funcs,  \* Checker.src2.unique_funcs
    src1_inst_types,    \* Checker.src1.inst_types
    src2_inst_types,    \* Checker.src2.inst_types
    preconditions,      \* Checker.preconditions
    constructors,       \* Checker.constructors
    getters,            \* Checker.getters
    unchecked_funcs,    \* Checker.unchecked_funcs
    verified_funcs,     \* Checker.verified_funcs
    tested_funcs,       \* Checker.tested_funcs
    components,         \* Checker.components: is_formal() of each component
    idx,                \* position of the `for component in &self.components` loop
    res,                \* the CheckResult the current component returned
    invoked,            \* the components whose run() was called, in call order
    view,               \* checker.unchecked_funcs as the running component reads it
    log_failed,         \* the names logged as failed ("`..` failed", line 186)
    report,             \* the last log line of run_all (lines 207-216)
    exit_status,        \* what main returns after run_all
    input,              \* the arguments Checker::new was called with
    common_funcs,       \* preprocess: the local common_funcs after matching
    updated_common_funcs, \* preprocess: the local updated_common_funcs after aligning
    gen_pc,             \* position of HarnessGenerator::new / generate_harness
    gen_input,          \* the `functions` argument of HarnessGenerator::new
    classifier,         \* HarnessGenerator.classifier (a FunctionClassifier)
    hooks,              \* the backend hooks generate_harness has called, in call order
    out_pc,             \* position of an output analysis (analyze_*_output)
    out_engine,         \* the engine whose output file is analysed
    out_functions,      \* the qualified names of the functions in the harness
    out_lines,          \* the lines of the output file
    out_res,            \* the CheckResult the analysis returns
    run_engines,        \* the components whose run() is called, in order
    run_idx,            \* the component whose run() is executing
    run_pc,             \* position inside Component::run
    run_made,           \* this run() has created its harness project directory
    run_status,         \* the status of the CheckResult run() returned
    dirs,               \* the harness project directories that exist
    sig_pc,             \* position of a call of Signature::eq
    sig_self,           \* the signature Signature::eq is called on
    sig_other,          \* the signature it is compared with
    sig_equal,          \* what Signature::eq returned
    ty_pc,              \* position of the calls of Type::eq_ignore_generics
    ty_args,            \* the types the calls are made on
    ty_eq,              \* what the call on each two of them returned
    rt_pc,              \* position of a harness name on its way to Kani and back
    rt_names,           \* the qualified names of the harnessed pairs
    rt_idents,          \* the harness function generated for each name
    rt_parsed           \* the name parsed back from each harness header

vars == <<pc, src1_unique_funcs, src2_unique_funcs, src1_inst_types,
          src2_inst_types, preconditions, constructors, getters,
          unchecked_funcs, verified_funcs, tested_funcs, components, idx,
          res, invoked, view, log_failed, report,
          exit_status, input, common_funcs, updated_common_funcs,
          gen_pc, gen_input, classifier, hooks,
          out_pc, out_engine, out_functions, out_lines, out_res,
          run_engines, run_idx, run_pc, run_made, run_status, dirs,
          sig_pc, sig_self, sig_other, sig_equal,
          ty_pc, ty_args, ty_eq, rt_pc, rt_names, rt_idents, rt_parsed>>

\* the variables of a harness generator
genvars == <<gen_pc, gen_input, classifier, hooks>>

\* the variables of an output analysis
outvars == <<out_pc, out_engine, out_functions, out_lines, out_res>>

\* the variables of the body of Component::run
runvars == <<run_engines, run_idx, run_pc, run_made, run_status, dirs>>

\* the variables of a call of Signature::eq
sigvars == <<sig_pc, sig_self, sig_other, sig_equal>>

\* the variables of the calls of Type::eq_ignore_generics
tyvars == <<ty_pc, ty_args, ty_eq>>

\* the variables of a harness name round trip
rtvars == <<rt_pc, rt_names, rt_idents, rt_parsed>>

\* the variables Checker::new and Checker::run_all do not touch
auxvars == <<genvars, outvars, runvars, sigvars, tyvars, rtvars>>

buckets == <<unchecked_funcs, verified_funcs, tested_funcs>>

----------------------------------------------------------------------------
(* Bounds of the model.                                                    *)

\* longest function list of a source in the matching inputs
MaxFuncs == 2
\* longest instantiated-alias list of source 1
MaxAliases == 2
\* longest precondition list
MaxPreconds == 1
\* longest ok list of a CheckResult
MaxOk == 2
\* longest fail list of a CheckResult
MaxFail == 1

----------------------------------------------------------------------------
(* Generic helpers.                                                        *)

SeqsUpTo(S, n) == UNION { [1..k -> S] : k \in 0..n }

\* the lists of at most n elements of S that hold no element twice
ListsUpTo(S, n) ==
    { s \in SeqsUpTo(S, n) : \A i, j \in 1..Len(s) : s[i] = s[j] => i = j }

Range(s) == { s[i] : i \in 1..Len(s) }

RECURSIVE Flatten(_)
Flatten(ss) == IF ss = <<>> THEN <<>> ELSE Head(ss) \o Flatten(Tail(ss))

\* how many entries of s are x
Count(s, x) == Cardinality({ i \in 1..Len(s) : s[i] = x })

IsPrefix(s, t) == Len(s) <= Len(t) /\ \A i \in 1..Len(s) : s[i] = t[i]

\* the first of the positions hits of a list, 0 when there is none
\* (Iterator::find)
FirstIndex(hits) ==
    IF hits = {} THEN 0 ELSE CHOOSE i \in hits : \A j \in hits : i <= j

----------------------------------------------------------------------------
(* Types (src/src/defs/types.rs) and syntactic types of signatures.        *)

NoType == [kind |-> "None", path |-> <<>>, generics |-> <<>>]
Precise(p) == [kind |-> "Precise", path |-> p, generics |-> <<>>]
Generic(p, g) == [kind |-> "Generic", path |-> p, generics |-> g]

NoPath == <<>>

eq_ignore_generics(self, other) ==
    IF self.kind = "Generic" /\ other.kind = "Generic" THEN self.path = other.path
    ELSE IF self.kind = "Precise" /\ other.kind = "Precise" THEN self = other
    ELSE FALSE

\* a syn::Type: a path type with the identifiers of its segments and the
\* generic arguments of its last segment, or another kind of type
PathTy(segs, args) == [kind |-> "path", segs |-> segs, args |-> args]
OtherTy(kind, inner) == [kind |-> kind, segs |-> inner, args |-> <<>>]

type_to_string(ty) ==
    IF ty.kind = "path" THEN ty.segs ELSE <<"unsupported">>

type_eq(a, b) == type_to_string(a) = type_to_string(b)

Receiver == [recv |-> TRUE, ty |-> PathTy(<<"Self">>, <<>>)]
Typed(ty) == [recv |-> FALSE, ty |-> ty]

NoReturn == [present |-> FALSE, ty |-> PathTy(<<>>, <<>>)]
Returns(ty) == [present |-> TRUE, ty |-> ty]

FnArgEq(a, b) ==
    IF a.recv /\ b.recv THEN TRUE
    ELSE IF ~a.recv /\ ~b.recv THEN type_eq(a.ty, b.ty)
    ELSE FALSE

ReturnTypeEq(a, b) ==
    IF ~a.present /\ ~b.present THEN TRUE
    ELSE IF a.present /\ b.present THEN type_eq(a.ty, b.ty)
    ELSE FALSE

SignatureEq(self, other) ==
    /\ self.ident = other.ident
    /\ Len(self.inputs) = Len(other.inputs)
    /\ \A i \in 1..Len(self.inputs) : FnArgEq(self.inputs[i], other.inputs[i])
    /\ ReturnTypeEq(self.output, other.output)

Signature(ident, inputs, output) ==
    [ident |-> ident, inputs |-> inputs, output |-> output]

FunctionMetadata(name, signature, impl_type, trait_) ==
    [name |-> name, signature |-> signature, impl_type |-> impl_type, trait_ |-> trait_]

Function(metadata, body) == [metadata |-> metadata, body |-> body]

CommonFunction(metadata, body1, body2) ==
    [metadata |-> metadata, body1 |-> body1, body2 |-> body2]

ident(metadata) == metadata.signature.ident

join(path, seg) == Append(path, seg)

is_constructor(metadata) == ident(metadata) = "verieasy_new"

is_getter(metadata) == ident(metadata) = "verieasy_get"

Precondition(name, impl_type, is_method) ==
    [name |-> name, impl_type |-> impl_type, is_method |-> is_method]

PrecondIdent(pre) == pre.name[Len(pre.name)]

InstantiatedType(alias, concrete) == [alias |-> alias, concrete |-> concrete]

----------------------------------------------------------------------------
(* Checker::preprocess (src/src/check.rs).                                 *)

\* lines 243-256: every function of source 1 is paired with the first
\* function of source 2 whose signature is equal
MatchFunctions(fs1, fs2) ==
    Flatten([ i \in 1..Len(fs1) |->
        LET j == FirstIndex({ n \in 1..Len(fs2) :
                     SignatureEq(fs1[i].metadata.signature, fs2[n].metadata.signature) })
        IN  IF j = 0 THEN <<>>
            ELSE << CommonFunction(fs1[i].metadata, fs1[i].body, fs2[j].body) >> ])

\* lines 259-268: unique_funcs.retain(no common function has this name)
RetainUnique(fs, common) ==
    SelectSeq(fs, LAMBDA f :
        ~ \E k \in 1..Len(common) : f.metadata.name = common[k].metadata.name)

\* the aliases of inst_types whose concrete type equals impl_type, generic
\* arguments ignored, in list order (the inner loops at lines 291 and 314)
MatchingAliases(impl_type, inst_types) ==
    IF impl_type = NoType THEN <<>>
    ELSE SelectSeq(inst_types, LAMBDA it : eq_ignore_generics(it.concrete, impl_type))

\* lines 287-306, one iteration of the outer loop: the entries pushed to
\* updated_common_funcs for one common function
AlignFunction(func, inst_types) ==
    LET hits == MatchingAliases(func.metadata.impl_type, inst_types)
    IN  IF hits = <<>> THEN << func >>
        ELSE [ k \in 1..Len(hits) |->
                 [func EXCEPT !.metadata.impl_type = Precise(hits[k].alias),
                              !.metadata.name = join(hits[k].alias, ident(func.metadata))] ]

\* lines 310-328, one iteration of the outer loop
AlignPrecondition(pre, inst_types) ==
    LET hits == MatchingAliases(pre.impl_type, inst_types)
    IN  IF hits = <<>> THEN << pre >>
        ELSE [ k \in 1..Len(hits) |->
                 [pre EXCEPT !.impl_type = Precise(hits[k].alias),
                             !.name = join(hits[k].alias, PrecondIdent(pre))] ]

\* the alias list the alignment scans: only that of source 1 (lines 291, 314)
AlignmentAliases(inst1, inst2) == inst1

AlignFunctions(common, inst_types) ==
    Flatten([ i \in 1..Len(common) |-> AlignFunction(common[i], inst_types) ])

AlignPreconditions(pres, inst_types) ==
    Flatten([ i \in 1..Len(pres) |-> AlignPrecondition(pres[i], inst_types) ])

\* IsSupport with the filter of line 344 lost
IsSupportNever(f) == FALSE

\* line 344: the pairs retain removes from updated_common_funcs
IsSupport(f) == is_constructor(f.metadata) \/ is_getter(f.metadata)

\* Checker::new: the struct is built from its arguments and preprocess runs
New ==
    /\ pc = "new"
    /\ LET common == MatchFunctions(src1_unique_funcs, src2_unique_funcs)
           aliases == AlignmentAliases(src1_inst_types, src2_inst_types)
           updated == AlignFunctions(common, aliases)
       IN  /\ common_funcs' = common
           /\ updated_common_funcs' = updated
           /\ src1_unique_funcs' = RetainUnique(src1_unique_funcs, common)
           /\ src2_unique_funcs' = RetainUnique(src2_unique_funcs, common)
           /\ preconditions' = AlignPreconditions(preconditions, aliases)
           /\ constructors' = SelectSeq(updated, LAMBDA f : is_constructor(f.metadata))
           /\ getters' = SelectSeq(updated, LAMBDA f : is_getter(f.metadata))
           /\ unchecked_funcs' = SelectSeq(updated, LAMBDA f : ~IsSupport(f))
    /\ pc' = "loop"
    /\ idx' = 1
    /\ UNCHANGED auxvars
    /\ UNCHANGED <<src1_inst_types, src2_inst_types, verified_funcs, tested_funcs,
                   components, res, invoked, view, log_failed, report,
                   exit_status, input>>

----------------------------------------------------------------------------
(* The inputs of the model: function records as FunctionCollector builds   *)
(* them, instantiated aliases and preconditions.                          *)

TyU32 == PathTy(<<"u32">>, <<>>)
TySelf == PathTy(<<"Self">>, <<>>)
TyFooT == Generic(<<"Foo">>, << Precise(<<"T">>) >>)
TyFooA == Generic(<<"Foo">>, << Precise(<<"A">>) >>)
TyFooB == Generic(<<"Foo">>, << Precise(<<"B">>) >>)
TyFoo == Precise(<<"Foo">>)

SigFoo == Signature("foo", << Typed(TyU32) >>, Returns(TyU32))
SigBar == Signature("bar", << Receiver >>, NoReturn)
SigFmt == Signature("fmt", << Receiver >>, Returns(TyU32))
SigNew == Signature("verieasy_new", <<>>, Returns(TySelf))

\* mod a { fn foo(x: u32) -> u32 }
MFooA == FunctionMetadata(<<"a", "foo">>, SigFoo, NoType, NoPath)
\* mod b { fn foo(x: u32) -> u32 }
MFooB == FunctionMetadata(<<"b", "foo">>, SigFoo, NoType, NoPath)
\* impl<T> Foo<T> { fn bar(&self) }
MBarT == FunctionMetadata(<<"Foo<T>", "bar">>, SigBar, TyFooT, NoPath)
\* impl Display for Foo { fn fmt(&self) -> u32 }
MFmtDisplay == FunctionMetadata(<<"Foo", "fmt">>, SigFmt, TyFoo, <<"Display">>)
\* impl Debug for Foo { fn fmt(&self) -> u32 }
MFmtDebug == FunctionMetadata(<<"Foo", "fmt">>, SigFmt, TyFoo, <<"Debug">>)
\* impl<T> Foo<T> { fn verieasy_new() -> Self }
MNewT == FunctionMetadata(<<"Foo<T>", "verieasy_new">>, SigNew, TyFooT, NoPath)
\* impl<T> Foo<T> { fn verieasy_get(&self) -> u32 }
MGetT == FunctionMetadata(<<"Foo<T>", "verieasy_get">>,
             Signature("verieasy_get", << Receiver >>, Returns(TyU32)), TyFooT, NoPath)

FuncPool == {MFooA, MFooB, MBarT, MFmtDisplay, MFmtDebug, MNewT}

\* the list FunctionCollector::collect returns for source n
Collected(n, metas) == [ i \in 1..Len(metas) |-> Function(metas[i], <<n, i>>) ]

\* type FA = Foo<A>;  type FB = Foo<B>;
AliasFA == InstantiatedType(<<"FA">>, TyFooA)
AliasFB == InstantiatedType(<<"FB">>, TyFooB)
InstPool == {AliasFA, AliasFB}

PreBar == Precondition(<<"Foo<T>", "bar">>, TyFooT, TRUE)
PreFoo == Precondition(<<"a", "foo">>, NoType, FALSE)
PrePool == {PreBar, PreFoo}

NoResult == [status |-> "None", ok |-> <<>>, fail |-> <<>>]
NoReport == [kind |-> "none", names |-> <<>>]

\* a BTreeMap without entries
EmptyMap == [ k \in {} |-> k ]

\* generate.rs lines 32-37: the classifier classify starts from
EmptyClassifier ==
    [functions |-> <<>>, methods |-> <<>>,
     constructors |-> EmptyMap, getters |-> EmptyMap]

\* no harness generator has been built
GenIdle ==
    /\ gen_pc = "idle"
    /\ gen_input = <<>>
    /\ classifier = EmptyClassifier
    /\ hooks = <<>>

\* no output file is being analysed
OutIdle ==
    /\ out_pc = "idle"
    /\ out_engine = "none"
    /\ out_functions = <<>>
    /\ out_lines = <<>>
    /\ out_res = NoResult

\* no Component::run is executing
RunIdle ==
    /\ run_engines = <<>>
    /\ run_idx = 0
    /\ run_pc = "idle"
    /\ run_made = FALSE
    /\ run_status = "none"
    /\ dirs = {}

\* no Signature::eq call is observed
SigIdle ==
    /\ sig_pc = "idle"
    /\ sig_self = Signature("", <<>>, NoReturn)
    /\ sig_other = Signature("", <<>>, NoReturn)
    /\ sig_equal = FALSE

\* no Type::eq_ignore_generics call is observed
TyIdle ==
    /\ ty_pc = "idle"
    /\ ty_args = <<>>
    /\ ty_eq = EmptyMap

\* no harness name is followed
RtIdle ==
    /\ rt_pc = "idle"
    /\ rt_names = <<>>
    /\ rt_idents = <<>>
    /\ rt_parsed = <<>>

AuxIdle == GenIdle /\ OutIdle /\ RunIdle /\ SigIdle /\ TyIdle /\ RtIdle

\* the call Checker::new(src1, src2, steps, preconditions)
Args(metas1, metas2, inst1, inst2, pres, steps) ==
    [funcs1 |-> Collected(1, metas1), funcs2 |-> Collected(2, metas2),
     inst1 |-> inst1, inst2 |-> inst2, preconditions |-> pres, steps |-> steps]

\* the state in which Checker::new is called with the arguments a
Start(a) ==
    /\ pc = "new"
    /\ input = a
    /\ src1_unique_funcs = a.funcs1
    /\ src2_unique_funcs = a.funcs2
    /\ src1_inst_types = a.inst1
    /\ src2_inst_types = a.inst2
    /\ preconditions = a.preconditions
    /\ components = a.steps
    /\ constructors = <<>>
    /\ getters = <<>>
    /\ unchecked_funcs = <<>>
    /\ verified_funcs = <<>>
    /\ tested_funcs = <<>>
    /\ common_funcs = <<>>
    /\ updated_common_funcs = <<>>
    /\ idx = 0
    /\ res = NoResult
    /\ invoked = <<>>
    /\ view = <<>>
    /\ log_failed = <<>>
    /\ report = NoReport
    /\ exit_status = "none"
    /\ AuxIdle

\* Inputs of the construction: either two arbitrary function lists without
\* aliases, or one function list present in both sources with arbitrary
\* alias and precondition lists.  A source declares an item once, so no list
\* holds the same record twice; two records of a list may carry the same
\* qualified name (MFmtDisplay and MFmtDebug).
MatchingInputs ==
    { Args(m1, m2, <<>>, <<>>, <<>>, <<>>) :
        m1 \in ListsUpTo(FuncPool, MaxFuncs), m2 \in ListsUpTo(FuncPool, MaxFuncs) }

AliasInputs ==
    { Args(t[1], t[1], t[2], t[3], t[4], <<>>) :
        t \in ListsUpTo(FuncPool, MaxFuncs) \X ListsUpTo(InstPool, MaxAliases)
              \X ({<<>>} \cup { <<a>> : a \in InstPool })
              \X ListsUpTo(PrePool, MaxPreconds) }

InitNew == \E a \in MatchingInputs \cup AliasInputs : Start(a)

NextNew == New

SpecNew == InitNew /\ [][NextNew]_vars

----------------------------------------------------------------------------
(* Checker::run_all (src/src/check.rs lines 136-217) and main.             *)

Names(funcs) == { funcs[i].metadata.name : i \in 1..Len(funcs) }

NameSeq(funcs) == [ i \in 1..Len(funcs) |-> funcs[i].metadata.name ]

\* a qualified name that no matched pair carries
UnknownName == <<"nowhere", "nothing">>

\* the names a component may report: those of the matched pairs (checked
\* or support) and an unknown one
ResultNames ==
    Names(unchecked_funcs) \cup Names(verified_funcs) \cup Names(tested_funcs)
        \cup Names(constructors) \cup Names(getters) \cup {UnknownName}

\* the CheckResult values a component may return
CheckResults(names) ==
    [status : {"Ok", "Err"}, ok : SeqsUpTo(names, MaxOk), fail : SeqsUpTo(names, MaxFail)]

\* MoveOk with the is_formal() test lost: every pair goes to Verified
MoveOkAllVerified(b, name, formal) ==
    LET i == FirstIndex({ n \in 1..Len(b[1]) : b[1][n].metadata.name = name })
    IN  IF i = 0 THEN b
        ELSE << SelectSeq(b[1], LAMBDA func2 : func2.metadata.name # name),
                Append(b[2], b[1][i]), b[3] >>

\* MoveOk with the retain of lines 179-180 lost: the pair stays in Unchecked
MoveOkKeepUnchecked(b, name, formal) ==
    LET i == FirstIndex({ n \in 1..Len(b[1]) : b[1][n].metadata.name = name })
    IN  IF i = 0 THEN b
        ELSE << b[1],
                IF formal THEN Append(b[2], b[1][i]) ELSE b[2],
                IF formal THEN b[3] ELSE Append(b[3], b[1][i]) >>

\* lines 169-181, one iteration of `for name in &res.ok` on the buckets b
MoveOk(b, name, formal) ==
    LET i == FirstIndex({ n \in 1..Len(b[1]) : b[1][n].metadata.name = name })
    IN  IF i = 0 THEN b
        ELSE << SelectSeq(b[1], LAMBDA func2 : func2.metadata.name # name),
                IF formal THEN Append(b[2], b[1][i]) ELSE b[2],
                IF formal THEN b[3] ELSE Append(b[3], b[1][i]) >>

\* lines 167-182: the whole `for name in &res.ok` loop
RECURSIVE MoveAllOk(_, _, _)
MoveAllOk(b, ok, formal) ==
    IF ok = <<>> THEN b
    ELSE MoveAllOk(MoveOk(b, Head(ok), formal), Tail(ok), formal)

\* IsSkipped with the `continue` of line 158 lost
IsSkippedNever(r) == FALSE

\* lines 150-159: does the loop body skip the result (`continue`)?
IsSkipped(r) == r.status = "Err"

\* IsFatal with the `break` of line 195 lost
IsFatalNever(r) == FALSE

\* lines 184-196: does the loop stop after this result (`break`)?
IsFatal(r) == r.fail # <<>>

\* NextComponent with the advance of the iterator lost
NextComponentSame(i) == i

\* line 137: `for component in &self.components` advances to the next entry
NextComponent(i) == i + 1

\* lines 137-149: the loop takes the next component and calls its run(),
\* which reads the checker
Invoke ==
    /\ pc = "loop"
    /\ idx <= Len(components)
    /\ pc' = "running"
    /\ invoked' = Append(invoked, idx)
    /\ view' = unchecked_funcs
    /\ UNCHANGED auxvars
    /\ UNCHANGED <<src1_unique_funcs, src2_unique_funcs, src1_inst_types,
                   src2_inst_types, preconditions, constructors, getters,
                   unchecked_funcs, verified_funcs, tested_funcs, components, idx,
                   res, log_failed, report, exit_status, input, common_funcs,
                   updated_common_funcs>>

\* line 149: component.run(&self) returns its CheckResult
Return ==
    /\ pc = "running"
    /\ \E r \in CheckResults(ResultNames) : res' = r
    /\ pc' = "returned"
    /\ UNCHANGED auxvars
    /\ UNCHANGED <<src1_unique_funcs, src2_unique_funcs, src1_inst_types,
                   src2_inst_types, preconditions, constructors, getters,
                   unchecked_funcs, verified_funcs, tested_funcs, components, idx,
                   invoked, view, log_failed, report, exit_status, input,
                   common_funcs, updated_common_funcs>>

\* lines 150-205: the rest of the loop body, on the returned result
Process ==
    /\ pc = "returned"
    /\ IF IsSkipped(res)
       THEN /\ UNCHANGED <<unchecked_funcs, verified_funcs, tested_funcs, log_failed>>
            /\ pc' = "loop"
            /\ idx' = NextComponent(idx)
       ELSE /\ LET b == MoveAllOk(buckets, res.ok, components[idx])
               IN  /\ unchecked_funcs' = b[1]
                   /\ verified_funcs' = b[2]
                   /\ tested_funcs' = b[3]
            /\ IF IsFatal(res)
               THEN /\ log_failed' = res.fail
                    /\ pc' = "after_loop"
                    /\ idx' = idx
               ELSE /\ log_failed' = log_failed
                    /\ pc' = "loop"
                    /\ idx' = NextComponent(idx)
    /\ res' = NoResult
    /\ UNCHANGED auxvars
    /\ UNCHANGED <<src1_unique_funcs, src2_unique_funcs, src1_inst_types,
                   src2_inst_types, preconditions, constructors, getters,
                   components, invoked, view, report, exit_status, input,
                   common_funcs, updated_common_funcs>>

\* line 137: the loop ends when the components are exhausted
LoopEnd ==
    /\ pc = "loop"
    /\ idx > Len(components)
    /\ pc' = "after_loop"
    /\ UNCHANGED auxvars
    /\ UNCHANGED <<src1_unique_funcs, src2_unique_funcs, src1_inst_types,
                   src2_inst_types, preconditions, constructors, getters,
                   unchecked_funcs, verified_funcs, tested_funcs, components, idx,
                   res, invoked, view, log_failed, report, exit_status, input,
                   common_funcs, updated_common_funcs>>

\* FinalReport with the test of line 207 lost: the success line is logged
FinalReportAllChecked(unchecked) == [kind |-> "all_checked", names |-> <<>>]

\* lines 207-216: the final report of run_all
FinalReport(unchecked) ==
    IF unchecked # <<>>
    THEN [kind |-> "unchecked_remain", names |-> NameSeq(unchecked)]
    ELSE [kind |-> "all_checked", names |-> <<>>]

Report ==
    /\ pc = "after_loop"
    /\ report' = FinalReport(unchecked_funcs)
    /\ pc' = "reported"
    /\ UNCHANGED auxvars
    /\ UNCHANGED <<src1_unique_funcs, src2_unique_funcs, src1_inst_types,
                   src2_inst_types, preconditions, constructors, getters,
                   unchecked_funcs, verified_funcs, tested_funcs, components, idx,
                   res, invoked, view, log_failed, exit_status, input,
                   common_funcs, updated_common_funcs>>

\* src/src/main.rs lines 57-59: run_all returns nothing and main returns Ok(())
MainResult(rep, failed) == "success"

Exit ==
    /\ pc = "reported"
    /\ exit_status' = MainResult(report, log_failed)
    /\ pc' = "done"
    /\ UNCHANGED auxvars
    /\ UNCHANGED <<src1_unique_funcs, src2_unique_funcs, src1_inst_types,
                   src2_inst_types, preconditions, constructors, getters,
                   unchecked_funcs, verified_funcs, tested_funcs, components, idx,
                   res, invoked, view, log_failed, report, input, common_funcs,
                   updated_common_funcs>>

\* The component lists of the runs: the three components of src/src/components
\* (Kani is formal, PropertyBasedTesting and DifferentialFuzzing are not) in
\* every order, and the empty list.
ComponentLists ==
    { <<>>, <<TRUE, FALSE, FALSE>>, <<FALSE, TRUE, FALSE>>, <<FALSE, FALSE, TRUE>> }

\* The sources of the runs, the same function list in both versions.
RunSources ==
    { <<MFooA>>,
      <<MFooA, MBarT, MFmtDisplay>>,
      <<MFmtDisplay, MFmtDebug>>,
      <<MNewT, MGetT, MBarT>> }

RunInputs ==
    { Args(t[1], t[1], t[2], <<>>, <<>>, t[3]) :
        t \in RunSources \X {<<>>, <<AliasFA>>} \X ComponentLists }

Init == \E a \in RunInputs : Start(a)

Next == New \/ Invoke \/ Return \/ Process \/ LoopEnd \/ Report \/ Exit

Spec == Init /\ [][Next]_vars

----------------------------------------------------------------------------
(* Properties of Checker::run_all.                                         *)

\* the pairs Checker::new placed in Unchecked (line 345)
PlacedInUnchecked == SelectSeq(updated_common_funcs, LAMBDA f : ~IsSupport(f))

AllBucketPairs ==
    Range(unchecked_funcs) \cup Range(verified_funcs) \cup Range(tested_funcs)

\* C1: at every point of run_all the buckets Unchecked, Verified and Tested
\* hold, counted as pairs, exactly the pairs Checker::new placed in
\* Unchecked: every such pair is in exactly one bucket exactly as often as it
\* was placed, and nothing else is in a bucket.
C1_PartitionOfPairs ==
    pc # "new" =>
        /\ AllBucketPairs \subseteq Range(PlacedInUnchecked)
        /\ \A f \in Range(PlacedInUnchecked) :
              Count(unchecked_funcs, f) + Count(verified_funcs, f)
                  + Count(tested_funcs, f) = Count(PlacedInUnchecked, f)

\* a component has returned status Ok with a non-empty fail list and the
\* result is not yet handled
FatalReturned == pc = "returned" /\ res.status = "Ok" /\ res.fail # <<>>

\* the loop of run_all is over
LoopLeft == pc \in {"after_loop", "reported", "done"}

\* C2 as stated: from the moment a component returns status Ok with a
\* non-empty fail list, no component is invoked and no bucket changes.
C2_NothingChangesOnceReturned ==
    [][ (FatalReturned \/ (LoopLeft /\ log_failed # <<>>))
            => (invoked' = invoked /\ buckets' = buckets) ]_vars

\* C2 (amended): when a component returns status Ok with a non-empty fail
\* list, handling that result leaves the loop without invoking anything and
\* records the fail names; the only pairs that leave Unchecked then are named
\* in that result's ok list; once the loop is left no component is invoked
\* and no bucket changes.
C2_StopsAfterFail ==
    [][ /\ FatalReturned =>
              /\ pc' = "after_loop"
              /\ invoked' = invoked
              /\ log_failed' = res.fail
              /\ \A f \in Range(unchecked_funcs) \ Range(unchecked_funcs') :
                    f.metadata.name \in Range(res.ok)
        /\ LoopLeft => (LoopLeft' /\ invoked' = invoked /\ buckets' = buckets) ]_vars

\* C2 witness: components [A, B, C] over {a::foo, Foo<T>::bar, Foo::fmt}; A
\* reported a::foo ok, B reported Foo<T>::bar as failed, C was never invoked.
C2_Witness ==
    /\ pc = "done"
    /\ Len(components) = 3
    /\ invoked = <<1, 2>>
    /\ log_failed = << <<"Foo<T>", "bar">> >>
    /\ Names(verified_funcs) \cup Names(tested_funcs) = { <<"a", "foo">> }
    /\ Names(unchecked_funcs) = { <<"Foo<T>", "bar">>, <<"Foo", "fmt">> }

\* no inconsistency was recorded and nothing is left in Unchecked
RunSucceeded == log_failed = <<>> /\ unchecked_funcs = <<>>

\* C3: at the end of the program the final report of run_all is the success
\* report, and the exit status is success, exactly when no component reported
\* a non-empty fail list and Unchecked is empty.
C3_SuccessIffCleanRun ==
    pc = "done" =>
        /\ (report.kind = "all_checked") <=> RunSucceeded
        /\ (exit_status = "success") <=> RunSucceeded

\* C4: handling a result whose status is an error leaves Unchecked, Verified
\* and Tested (and the recorded failures) as they were, whatever its ok and
\* fail lists hold, does not leave the loop, and moves on to the next
\* component; at the loop head the only step is the call of that component.
C4_ErrorSkipsComponent ==
    [][ /\ (pc = "returned" /\ res.status = "Err") =>
              /\ buckets' = buckets
              /\ log_failed' = log_failed
              /\ pc' = "loop"
              /\ idx' = idx + 1
        /\ (pc = "loop" /\ idx <= Len(components)) =>
              /\ pc' = "running"
              /\ invoked' = Append(invoked, idx)
              /\ buckets' = buckets ]_vars

\* C4 witness: the second component returned an error whose ok list names a
\* pair that is in Unchecked and whose fail list is not empty, and a third
\* component is configured.
C4_Witness ==
    /\ pc = "returned"
    /\ idx = 2
    /\ Len(components) = 3
    /\ res.status = "Err"
    /\ res.fail # <<>>
    /\ Range(res.ok) \cap Names(unchecked_funcs) # {}
    /\ verified_funcs # <<>>

\* the names of an ok list that are in Unchecked when the result is handled
MovedNames == Range(res.ok) \cap Names(unchecked_funcs)

\* C5: handling a result with status Ok moves every name of ok that is in
\* Unchecked out of Unchecked and into Verified (formal component) or Tested
\* (other component), leaves the pairs with other names in Unchecked, and
\* changes nothing when no name of ok is in Unchecked; a pair enters Verified
\* only while a formal component's Ok result naming it is handled, and Tested
\* only while a non-formal component's is.
C5_OkMovesByFormality ==
    [][ /\ (pc = "returned" /\ res.status = "Ok") =>
              /\ \A n \in MovedNames :
                    /\ n \notin Names(unchecked_funcs')
                    /\ IF components[idx] THEN n \in Names(verified_funcs')
                                          ELSE n \in Names(tested_funcs')
              /\ unchecked_funcs' =
                    SelectSeq(unchecked_funcs, LAMBDA f : f.metadata.name \notin MovedNames)
              /\ MovedNames = {} => buckets' = buckets
        /\ \A f \in Range(verified_funcs') \ Range(verified_funcs) :
              /\ pc = "returned" /\ res.status = "Ok" /\ components[idx]
              /\ f.metadata.name \in MovedNames
        /\ \A f \in Range(tested_funcs') \ Range(tested_funcs) :
              /\ pc = "returned" /\ res.status = "Ok" /\ ~components[idx]
              /\ f.metadata.name \in MovedNames ]_vars

\* C5 witness: an Ok result is about to be handled whose ok list names a pair
\* in Unchecked and a name that is not in Unchecked, after earlier results put
\* pairs into Verified and into Tested.
C5_Witness ==
    /\ pc = "returned"
    /\ res.status = "Ok"
    /\ MovedNames # {}
    /\ Range(res.ok) \ Names(unchecked_funcs) # {}
    /\ verified_funcs # <<>>
    /\ tested_funcs # <<>>

----------------------------------------------------------------------------
(* Properties of Checker::new (preprocess).                                *)

\* the same function: the same qualified name and the same signature
\* (identifier, parameters and return type, generic arguments included)
SameFunction(f, g) ==
    /\ f.metadata.name = g.metadata.name
    /\ f.metadata.signature = g.metadata.signature

\* the matched pairs made for the function f
PairsFor(f) ==
    { k \in 1..Len(common_funcs) :
        /\ common_funcs[k].metadata.name = f.metadata.name
        /\ common_funcs[k].metadata.signature = f.metadata.signature }

\* C7: a function that occurs in both function lists with the same qualified
\* name and the same signature has exactly one matched pair after matching.
C7_ExactlyOnePair ==
    pc # "new" =>
        \A i \in 1..Len(input.funcs1) :
            (\E j \in 1..Len(input.funcs2) : SameFunction(input.funcs1[i], input.funcs2[j]))
                => Cardinality(PairsFor(input.funcs1[i])) = 1

FuncNames(funcs) == { funcs[i].metadata.name : i \in 1..Len(funcs) }

\* C8: a function record whose qualified name occurs in only one of the two
\* lists takes part in no matched pair: no pair carries its name and no pair
\* holds its body.
C8_OneSidedNeverMatched ==
    pc # "new" =>
        /\ \A i \in 1..Len(input.funcs1) :
              input.funcs1[i].metadata.name \notin FuncNames(input.funcs2) =>
                  \A k \in 1..Len(common_funcs) :
                      /\ common_funcs[k].metadata.name # input.funcs1[i].metadata.name
                      /\ common_funcs[k].body1 # input.funcs1[i].body
        /\ \A j \in 1..Len(input.funcs2) :
              input.funcs2[j].metadata.name \notin FuncNames(input.funcs1) =>
                  \A k \in 1..Len(common_funcs) :
                      /\ common_funcs[k].metadata.name # input.funcs2[j].metadata.name
                      /\ common_funcs[k].body2 # input.funcs2[j].body

\* the aliases of either source whose concrete type instantiates the generic
\* type g
AliasesOf(g) ==
    { a \in Range(src1_inst_types) \cup Range(src2_inst_types) :
        a.concrete.kind = "Generic" /\ a.concrete.path = g.path }

\* the entries of updated_common_funcs made from the matched pair c
AlignedFrom(c) ==
    { f \in Range(updated_common_funcs) : f.body1 = c.body1 /\ f.body2 = c.body2 }

\* C9: a matched pair with a generic owning type for which source 1 or
\* source 2 holds an instantiating alias A comes out with owning type A and
\* name A::<identifier>; every other pair comes out unchanged.
C9_AliasOfEitherSource ==
    pc # "new" =>
        \A k \in 1..Len(common_funcs) :
            LET c == common_funcs[k]
            IN  IF c.metadata.impl_type.kind = "Generic" /\ AliasesOf(c.metadata.impl_type) # {}
                THEN /\ AlignedFrom(c) # {}
                     /\ \A f \in AlignedFrom(c) :
                           \E a \in AliasesOf(c.metadata.impl_type) :
                               /\ f.metadata.impl_type = Precise(a.alias)
                               /\ f.metadata.name = join(a.alias, ident(c.metadata))
                ELSE AlignedFrom(c) = {c}

\* C10: alias alignment outputs one entry per matched pair and one per
\* precondition, in order, each unchanged or rewritten to the first matching
\* alias of the scanned list.
C10_OneEntryPerInput ==
    pc # "new" =>
        /\ Len(updated_common_funcs) = Len(common_funcs)
        /\ Len(preconditions) = Len(input.preconditions)
        /\ \A k \in 1..Len(common_funcs) :
              k <= Len(updated_common_funcs) =>
                  updated_common_funcs[k] =
                      AlignFunction(common_funcs[k], src1_inst_types)[1]
        /\ \A k \in 1..Len(input.preconditions) :
              k <= Len(preconditions) =>
                  preconditions[k] =
                      AlignPrecondition(input.preconditions[k], src1_inst_types)[1]

----------------------------------------------------------------------------
(* FunctionClassifier and HarnessGenerator (src/src/generate.rs).          *)

\* longest function list handed to HarnessGenerator::new
MaxClassified == 3

\* Insert that keeps an earlier entry of the key (first registered wins)
InsertKeepFirst(m, k, v) ==
    [ x \in DOMAIN m \cup {k} |-> IF x \in DOMAIN m THEN m[x] ELSE v ]

\* BTreeMap::insert: the entry of key k is set, an earlier one is overwritten
Insert(m, k, v) == [ x \in DOMAIN m \cup {k} |-> IF x = k THEN v ELSE m[x] ]

\* the map m without the keys ks (BTreeMap::remove for every key of ks)
RemoveKeys(m, ks) == [ x \in DOMAIN m \ ks |-> m[x] ]

\* HasReceiver with the receiver test lost
HasReceiverNever(signature) == FALSE

\* lines 50-56: inputs.iter().any(|arg| matches!(arg, FnArg::Receiver(_)))
HasReceiver(signature) ==
    \E i \in 1..Len(signature.inputs) : signature.inputs[i].recv

\* the rule of the former classifier (src/src/function.rs lines 244-258): a
\* receiver-less function that returns Self or its owning type
ReturnsOwningType(func) ==
    /\ ~HasReceiver(func.metadata.signature)
    /\ func.metadata.signature.output.present
    /\ func.metadata.signature.output.ty.kind = "path"
    /\ \/ func.metadata.signature.output.ty.segs = <<"Self">>
       \/ func.metadata.signature.output.ty.segs = func.metadata.impl_type.path

\* line 40: func.metadata.ident() == "verieasy_new"
IsConstructorMarker(func) == ident(func.metadata) = "verieasy_new"

\* line 44: func.metadata.ident() == "verieasy_get"
IsGetterMarker(func) == ident(func.metadata) = "verieasy_get"

\* lines 38-68, one iteration of `for func in functions`
ClassifyOne(c, func) ==
    IF func.metadata.impl_type # NoType
    THEN IF IsConstructorMarker(func)
         THEN [c EXCEPT !.constructors = Insert(@, func.metadata.impl_type, func)]
         ELSE IF IsGetterMarker(func)
         THEN [c EXCEPT !.getters = Insert(@, func.metadata.impl_type, func)]
         ELSE IF HasReceiver(func.metadata.signature)
         THEN [c EXCEPT !.methods = Append(@, func)]
         ELSE [c EXCEPT !.functions = Append(@, func)]
    ELSE [c EXCEPT !.functions = Append(@, func)]

RECURSIVE ClassifyFrom(_, _)
ClassifyFrom(c, functions) ==
    IF functions = <<>> THEN c
    ELSE ClassifyFrom(ClassifyOne(c, Head(functions)), Tail(functions))

\* FunctionClassifier::classify (lines 31-70)
classify(functions) == ClassifyFrom(EmptyClassifier, functions)

\* lines 76-85: the constructor keys no method is implemented on
unused_types(c) ==
    { type_ \in DOMAIN c.constructors :
        ~ \E i \in 1..Len(c.methods) : c.methods[i].metadata.impl_type = type_ }

\* FunctionClassifier::remove_unused_constructors_and_getters (lines 75-96)
remove_unused_constructors_and_getters(c) ==
    [c EXCEPT !.constructors = RemoveKeys(@, unused_types(c)),
              !.getters = RemoveKeys(@, unused_types(c))]

\* lines 102-109: the owning types of methods that have no constructor
no_constructor_types(c) ==
    { c.methods[i].metadata.impl_type : i \in 1..Len(c.methods) }
        \ DOMAIN c.constructors

\* remove_methods_without_constructors with the retain of lines 117-118 lost
remove_no_methods(c) == c

\* FunctionClassifier::remove_methods_without_constructors (lines 101-120)
remove_methods_without_constructors(c) ==
    [c EXCEPT !.methods =
        SelectSeq(@, LAMBDA m : m.metadata.impl_type \notin no_constructor_types(c))]

\* CommonFunction::impl_type (src/src/defs/function.rs lines 113-115)
impl_type(func) == func.metadata.impl_type

\* Option<&CommonFunction> of a map lookup, as the name of the entry
NameAt(m, k) == IF k \in DOMAIN m THEN m[k].metadata.name ELSE NoPath

\* one call of a backend hook (or of generate_imports): the hook, the pair it
\* is called for, and the constructor and getter handed to the method hook
HookCall(hook, name, constructor, getter) ==
    [hook |-> hook, name |-> name, constructor |-> constructor, getter |-> getter]

\* how many calls of the hook h the trace holds
Called(h) == Cardinality({ i \in 1..Len(hooks) : hooks[i].hook = h })

\* lines 181-195: the constructors of the methods, each once, in the order
\* the methods need them
RECURSIVE used_constructors(_, _, _)
used_constructors(c, methods, used) ==
    IF methods = <<>> THEN used
    ELSE LET constructor == c.constructors[impl_type(Head(methods))]
         IN  used_constructors(c, Tail(methods),
                 IF \E i \in 1..Len(used) : used[i].metadata.name = constructor.metadata.name
                 THEN used ELSE Append(used, constructor))

\* lines 172-205: the calls of B::arg_struct_attrs made by
\* generate_all_arg_structs, one per generated struct, in call order
ArgStructCalls(c) ==
    [ i \in 1..Len(c.functions) |->
        HookCall("arg_struct_attrs", c.functions[i].metadata.name, NoPath, NoPath) ]
    \o [ i \in 1..Len(c.methods) |->
        HookCall("arg_struct_attrs", c.methods[i].metadata.name, NoPath, NoPath) ]
    \o [ i \in 1..Len(used_constructors(c, c.methods, <<>>)) |->
        HookCall("arg_struct_attrs",
                 used_constructors(c, c.methods, <<>>)[i].metadata.name, NoPath, NoPath) ]

\* AfterHooks with the two maps of lines 304-315 exchanged
AfterHooksMethodsFirst(k, n) ==
    IF n < Len(classifier.methods) THEN "methods"
    ELSE IF k < Len(classifier.functions) THEN "functions"
    ELSE "additional"

\* where generate_harness continues after k function hooks and n method hooks
AfterHooks(k, n) ==
    IF k < Len(classifier.functions) THEN "functions"
    ELSE IF n < Len(classifier.methods) THEN "methods"
    ELSE "additional"

GenFrame == UNCHANGED <<pc, src1_unique_funcs, src2_unique_funcs, src1_inst_types,
                        src2_inst_types, preconditions, constructors, getters,
                        unchecked_funcs, verified_funcs, tested_funcs, components,
                        idx, res, invoked, view, log_failed, report, exit_status,
                        input, common_funcs, updated_common_funcs, gen_input,
                        outvars, runvars, sigvars, tyvars, rtvars>>

\* HarnessGenerator::new line 142
Classify ==
    /\ gen_pc = "new"
    /\ classifier' = classify(gen_input)
    /\ gen_pc' = "classified"
    /\ hooks' = hooks
    /\ GenFrame

\* HarnessGenerator::new line 143
RemoveUnused ==
    /\ gen_pc = "classified"
    /\ classifier' = remove_unused_constructors_and_getters(classifier)
    /\ gen_pc' = "pruned_unused"
    /\ hooks' = hooks
    /\ GenFrame

\* HarnessGenerator::new lines 144-150
RemoveMethods ==
    /\ gen_pc = "pruned_unused"
    /\ classifier' = remove_methods_without_constructors(classifier)
    /\ gen_pc' = "built"
    /\ hooks' = hooks
    /\ GenFrame

\* generate_harness line 302
GenerateImports ==
    /\ gen_pc = "built"
    /\ hooks' = Append(hooks, HookCall("generate_imports", NoPath, NoPath, NoPath))
    /\ gen_pc' = "arg_structs"
    /\ classifier' = classifier
    /\ GenFrame

\* generate_harness line 303; the lookup at lines 183-187 panics when a
\* method has no constructor
GenerateAllArgStructs ==
    /\ gen_pc = "arg_structs"
    /\ IF \A i \in 1..Len(classifier.methods) :
             impl_type(classifier.methods[i]) \in DOMAIN classifier.constructors
       THEN /\ hooks' = hooks \o ArgStructCalls(classifier)
            /\ gen_pc' = AfterHooks(0, 0)
       ELSE /\ hooks' = hooks
            /\ gen_pc' = "panicked"
    /\ classifier' = classifier
    /\ GenFrame

\* generate_harness lines 304-309, one element of the map over functions
\* (generate_harness_for_function, lines 208-221)
HarnessForFunction ==
    /\ gen_pc = "functions"
    /\ LET k == Called("make_harness_for_function") + 1
       IN  /\ hooks' = Append(hooks,
                  HookCall("make_harness_for_function",
                           classifier.functions[k].metadata.name, NoPath, NoPath))
           /\ gen_pc' = AfterHooks(k, Called("make_harness_for_method"))
    /\ classifier' = classifier
    /\ GenFrame

\* generate_harness lines 310-315, one element of the map over methods
\* (generate_harness_for_method, lines 224-281)
HarnessForMethod ==
    /\ gen_pc = "methods"
    /\ LET n == Called("make_harness_for_method") + 1
           method == classifier.methods[n]
       IN  IF impl_type(method) \in DOMAIN classifier.constructors
           THEN /\ hooks' = Append(hooks,
                       HookCall("make_harness_for_method", method.metadata.name,
                                NameAt(classifier.constructors, impl_type(method)),
                                NameAt(classifier.getters, impl_type(method))))
                /\ gen_pc' = AfterHooks(Called("make_harness_for_function"), n)
           ELSE /\ hooks' = hooks
                /\ gen_pc' = "panicked"
    /\ classifier' = classifier
    /\ GenFrame

\* generate_harness line 316
AdditionalCode ==
    /\ gen_pc = "additional"
    /\ hooks' = Append(hooks, HookCall("additional_code", NoPath, NoPath, NoPath))
    /\ gen_pc' = "finalize"
    /\ classifier' = classifier
    /\ GenFrame

\* generate_harness line 318
Finalize ==
    /\ gen_pc = "finalize"
    /\ hooks' = Append(hooks, HookCall("finalize", NoPath, NoPath, NoPath))
    /\ gen_pc' = "done"
    /\ classifier' = classifier
    /\ GenFrame

\* The function records handed to the classifier.
TyFooPath == PathTy(<<"Foo">>, <<>>)

\* impl Foo { fn verieasy_new(x: u32) -> Foo }
MNewFoo == FunctionMetadata(<<"Foo", "verieasy_new">>,
               Signature("verieasy_new", << Typed(TyU32) >>, Returns(TyFooPath)),
               TyFoo, NoPath)
\* impl Foo { fn verieasy_get(&self) -> u32 }
MGetFoo == FunctionMetadata(<<"Foo", "verieasy_get">>,
               Signature("verieasy_get", << Receiver >>, Returns(TyU32)),
               TyFoo, NoPath)
\* impl Foo { fn make() -> Self }
MMakeFoo == FunctionMetadata(<<"Foo", "make">>,
               Signature("make", <<>>, Returns(TySelf)), TyFoo, NoPath)
\* impl Foo { fn from(x: u32) -> Foo }
MFromFoo == FunctionMetadata(<<"Foo", "from">>,
               Signature("from", << Typed(TyU32) >>, Returns(TyFooPath)),
               TyFoo, NoPath)
\* fn take(self), outside of any impl block (syn parses it; rustc rejects it)
MTakeFree == FunctionMetadata(<<"take">>,
               Signature("take", << Receiver >>, NoReturn), NoType, NoPath)

\* impl Mk for Foo { fn verieasy_new() -> Self }
MNewFooMk == FunctionMetadata(<<"Foo", "verieasy_new">>,
               Signature("verieasy_new", <<>>, Returns(TySelf)), TyFoo, <<"Mk">>)

\* fn verieasy_new() -> u32, outside of any impl block
MNewFree == FunctionMetadata(<<"verieasy_new">>,
               Signature("verieasy_new", <<>>, Returns(TyU32)), NoType, NoPath)

GenPool ==
    {MFooA, MBarT, MFmtDisplay, MNewT, MNewFoo, MNewFooMk, MGetFoo, MMakeFoo,
     MFromFoo, MTakeFree, MNewFree}

\* the matched pairs of the records metas
Pairs(metas) ==
    [ i \in 1..Len(metas) |-> CommonFunction(metas[i], <<1, i>>, <<2, i>>) ]

\* no checker is under construction or running
CheckerIdle ==
    /\ pc = "idle"
    /\ input = Args(<<>>, <<>>, <<>>, <<>>, <<>>, <<>>)
    /\ src1_unique_funcs = <<>>
    /\ src2_unique_funcs = <<>>
    /\ src1_inst_types = <<>>
    /\ src2_inst_types = <<>>
    /\ preconditions = <<>>
    /\ components = <<>>
    /\ constructors = <<>>
    /\ getters = <<>>
    /\ unchecked_funcs = <<>>
    /\ verified_funcs = <<>>
    /\ tested_funcs = <<>>
    /\ common_funcs = <<>>
    /\ updated_common_funcs = <<>>
    /\ idx = 0
    /\ res = NoResult
    /\ invoked = <<>>
    /\ view = <<>>
    /\ log_failed = <<>>
    /\ report = NoReport
    /\ exit_status = "none"

\* HarnessGenerator::new is called with a list of matched pairs
InitGen ==
    /\ CheckerIdle
    /\ gen_pc = "new"
    /\ gen_input \in { Pairs(ms) : ms \in ListsUpTo(GenPool, MaxClassified) }
    /\ classifier = EmptyClassifier
    /\ hooks = <<>>
    /\ OutIdle
    /\ RunIdle
    /\ SigIdle
    /\ TyIdle
    /\ RtIdle

NextGen ==
    \/ Classify \/ RemoveUnused \/ RemoveMethods \/ GenerateImports
    \/ GenerateAllArgStructs \/ HarnessForFunction \/ HarnessForMethod
    \/ AdditionalCode \/ Finalize

SpecGen == InitGen /\ [][NextGen]_vars

----------------------------------------------------------------------------
(* Properties of FunctionClassifier::classify.                             *)

\* the pair has a receiver parameter
WithReceiver(f) ==
    \E i \in 1..Len(f.metadata.signature.inputs) : f.metadata.signature.inputs[i].recv

\* the pair carries a reserved identifier
ReservedIdent(f) ==
    f.metadata.signature.ident \in {"verieasy_new", "verieasy_get"}

\* C11 as stated: after classify every pair of the input whose signature has
\* a receiver parameter is in Methods and not in Functions, whatever its
\* identifier is.
C11_ReceiverIsMethod ==
    gen_pc = "classified" =>
        \A i \in 1..Len(gen_input) :
            WithReceiver(gen_input[i]) =>
                /\ gen_input[i] \in Range(classifier.methods)
                /\ gen_input[i] \notin Range(classifier.functions)

\* C11 (amended): after classify a pair with a receiver parameter and an
\* owning type is in Methods and not in Functions when its identifier is not
\* reserved, and is in neither list when its identifier is verieasy_new or
\* verieasy_get (it is registered as constructor or getter); a pair with a
\* receiver parameter and no owning type is in Functions.
C11_ReceiverIsMethodUnlessReserved ==
    gen_pc = "classified" =>
        \A i \in 1..Len(gen_input) :
            LET f == gen_input[i]
            IN  WithReceiver(f) =>
                    IF f.metadata.impl_type = NoType
                    THEN f \in Range(classifier.functions)
                            /\ f \notin Range(classifier.methods)
                    ELSE IF ReservedIdent(f)
                    THEN /\ f \notin Range(classifier.methods)
                         /\ f \notin Range(classifier.functions)
                         /\ f.metadata.impl_type \in
                                DOMAIN classifier.constructors \cup DOMAIN classifier.getters
                    ELSE /\ f \in Range(classifier.methods)
                         /\ f \notin Range(classifier.functions)

\* C11 witness: classify has run on a list that holds a getter with a
\* receiver and a method of the same owning type.
C11_Witness ==
    /\ gen_pc = "classified"
    /\ classifier.methods # <<>>
    /\ \E i \in 1..Len(gen_input) :
          /\ WithReceiver(gen_input[i])
          /\ gen_input[i].metadata.signature.ident = "verieasy_get"
          /\ gen_input[i].metadata.impl_type \in DOMAIN classifier.getters
          /\ \E k \in 1..Len(classifier.methods) :
                classifier.methods[k].metadata.impl_type = gen_input[i].metadata.impl_type

\* the pair has no receiver, has an owning type and returns Self or a path
\* type that renders like its owning type
ReturnsOwner(f) ==
    /\ ~WithReceiver(f)
    /\ f.metadata.impl_type # NoType
    /\ f.metadata.signature.output.present
    /\ \/ f.metadata.signature.output.ty = PathTy(<<"Self">>, <<>>)
       \/ type_to_string(f.metadata.signature.output.ty) = f.metadata.impl_type.path

\* the entries of the Constructors bucket
ConstructorEntries == { classifier.constructors[t] : t \in DOMAIN classifier.constructors }

\* the last pair of the input named verieasy_new on the owning type t
LastConstructorOf(t) ==
    LET hits == { i \in 1..Len(gen_input) :
                    /\ gen_input[i].metadata.impl_type = t
                    /\ gen_input[i].metadata.signature.ident = "verieasy_new" }
    IN  gen_input[CHOOSE i \in hits : \A j \in hits : j <= i]

----------------------------------------------------------------------------
(* Properties of the pruning passes and of generate_harness.               *)

\* the owning types of the surviving methods
MethodTypes ==
    { classifier.methods[i].metadata.impl_type : i \in 1..Len(classifier.methods) }

\* both pruning passes have run
Pruned == gen_pc \notin {"idle", "new", "classified", "pruned_unused"}

\* C13: after classify and both pruning passes every surviving Method's
\* owning type has a (single, the map holds one entry per key) surviving
\* Constructor, and every surviving Constructor's and every surviving
\* Getter's owning type has at least one surviving Method.
C13_PruningConsistent ==
    Pruned =>
        /\ MethodTypes \subseteq DOMAIN classifier.constructors
        /\ DOMAIN classifier.constructors \subseteq MethodTypes
        /\ DOMAIN classifier.getters \subseteq MethodTypes

\* the place of a hook in the generation order
Rank(hook) ==
    CASE hook = "generate_imports" -> 1
      [] hook = "arg_struct_attrs" -> 2
      [] hook = "make_harness_for_function" -> 3
      [] hook = "make_harness_for_method" -> 4
      [] hook = "additional_code" -> 5
      [] hook = "finalize" -> 6

\* the calls of the hook h, in call order
CallsOf(h) == SelectSeq(hooks, LAMBDA c : c.hook = h)

\* C20: generate_harness calls the hooks in one order: imports, argument
\* containers, the function hook once per surviving Function in list order,
\* the method hook once per surviving Method in list order, each with the
\* Constructor registered for the method's owning type and with the Getter
\* registered for it, if any, the auxiliary hook once and assemble once as
\* the last call; no lookup of a constructor fails.
C20_HooksInFixedOrder ==
    /\ gen_pc # "panicked"
    /\ \A i, j \in 1..Len(hooks) : i < j => Rank(hooks[i].hook) <= Rank(hooks[j].hook)
    /\ Len(CallsOf("generate_imports")) <= 1
    /\ Len(CallsOf("additional_code")) <= 1
    /\ Len(CallsOf("finalize")) <= 1
    /\ IsPrefix([ i \in 1..Len(CallsOf("make_harness_for_function")) |->
                    CallsOf("make_harness_for_function")[i].name ],
                NameSeq(classifier.functions))
    /\ Len(CallsOf("make_harness_for_method")) <= Len(classifier.methods)
    /\ \A n \in 1..Len(CallsOf("make_harness_for_method")) :
          LET call == CallsOf("make_harness_for_method")[n]
              type_ == classifier.methods[n].metadata.impl_type
          IN  /\ call.name = classifier.methods[n].metadata.name
              /\ type_ \in DOMAIN classifier.constructors
              /\ call.constructor = classifier.constructors[type_].metadata.name
              /\ IF type_ \in DOMAIN classifier.getters
                 THEN call.getter = classifier.getters[type_].metadata.name
                 ELSE call.getter = NoPath
    /\ gen_pc = "done" =>
          /\ hooks[1].hook = "generate_imports"
          /\ hooks[Len(hooks)].hook = "finalize"
          /\ Len(CallsOf("additional_code")) = 1
          /\ Len(CallsOf("make_harness_for_function")) = Len(classifier.functions)
          /\ Len(CallsOf("make_harness_for_method")) = Len(classifier.methods)
          /\ Len(CallsOf("arg_struct_attrs")) >=
                Len(classifier.functions) + Len(classifier.methods)

\* C20 witness: generate_harness has finished after a function hook and a
\* method hook that was handed a constructor.
C20_Witness ==
    /\ gen_pc = "done"
    /\ CallsOf("make_harness_for_function") # <<>>
    /\ \E i \in 1..Len(hooks) :
          /\ hooks[i].hook = "make_harness_for_method"
          /\ hooks[i].constructor # NoPath

----------------------------------------------------------------------------
(* Output analysis of the components (src/src/components/kani.rs, pbt.rs,  *)
(* df.rs and src/src/steps/alive2.rs).                                     *)
(*                                                                         *)
(* In this section a string is the sequence of its characters, an          *)
(* identifier is a string and a Path is the sequence of its segments, so   *)
(* that flattening a name and decoding it again are computed on the        *)
(* characters.  A line of an output file is given by the pattern it        *)
(* matches (tag), the text the pattern captures (arg) and the function the *)
(* engine printed it for (of, not visible to the analysis).                *)

\* longest output file, in lines
MaxLines == 3

RECURSIVE JoinWith(_, _)
\* [String]::join(sep)
JoinWith(segs, sep) ==
    IF segs = <<>> THEN <<>>
    ELSE IF Len(segs) = 1 THEN segs[1]
    ELSE segs[1] \o sep \o JoinWith(Tail(segs), sep)

\* Path::to_string (src/src/defs/path.rs lines 15-17)
to_string(path) == JoinWith(path, <<":", ":">>)

\* Path::to_ident (lines 20-22)
to_ident(path) == JoinWith(path, <<"_", "_", "_">>)

StartsWith(s, p) == Len(p) <= Len(s) /\ SubSeq(s, 1, Len(p)) = p

RECURSIVE replace(_, _, _)
\* str::replace: every non-overlapping match of from, leftmost first
replace(s, from, to) ==
    IF s = <<>> THEN <<>>
    ELSE IF StartsWith(s, from)
         THEN to \o replace(SubSeq(s, Len(from) + 1, Len(s)), from, to)
         ELSE << Head(s) >> \o replace(Tail(s), from, to)

RECURSIVE SplitFrom(_, _, _)
SplitFrom(s, sep, cur) ==
    IF s = <<>> THEN << cur >>
    ELSE IF StartsWith(s, sep)
         THEN << cur >> \o SplitFrom(SubSeq(s, Len(sep) + 1, Len(s)), sep, <<>>)
         ELSE SplitFrom(Tail(s), sep, Append(cur, Head(s)))

\* Path::from_str (lines 25-28): s.split("::")
from_str(s) == SplitFrom(s, <<":", ":">>, <<>>)

\* Option<String>
None == [some |-> FALSE, val |-> <<>>]
Some(val) == [some |-> TRUE, val |-> val]

Line(tag, arg, of) == [tag |-> tag, arg |-> arg, of |-> of]

\* the outcome of an analysis: it returns a CheckResult or it panics
Returned(r) == [panic |-> FALSE, res |-> r]
Panicked == [panic |-> TRUE, res |-> NoResult]

\* kani.rs lines 246-257, one iteration of `for line in reader.lines()`;
\* st holds the locals func_name and res.ok
KaniLine(st, line) ==
    LET named == IF line.tag = "header"
                 THEN Some(replace(line.arg, <<"_", "_", "_">>, <<":", ":">>))
                 ELSE st.func_name
    IN  IF line.tag = "success" /\ named.some
        THEN [func_name |-> None, ok |-> Append(st.ok, from_str(named.val))]
        ELSE IF line.tag = "failure" /\ named.some
        THEN [func_name |-> None, ok |-> st.ok]
        ELSE [func_name |-> named, ok |-> st.ok]

RECURSIVE KaniLines(_, _)
KaniLines(st, lines) ==
    IF lines = <<>> THEN st ELSE KaniLines(KaniLine(st, Head(lines)), Tail(lines))

\* Kani::analyze_kani_output (kani.rs lines 234-259)
analyze_kani_output(lines) ==
    Returned([status |-> "Ok",
              ok |-> KaniLines([func_name |-> None, ok |-> <<>>], lines).ok,
              fail |-> <<>>])

\* Vec::swap_remove: entry i is replaced by the last entry
swap_remove(s, i) ==
    IF i = Len(s) THEN SubSeq(s, 1, Len(s) - 1)
    ELSE [SubSeq(s, 1, Len(s) - 1) EXCEPT ![i] = s[Len(s)]]

\* pbt.rs lines 271-278 and df.rs lines 330-337, one iteration of the loop
\* on res.ok
MismatchLine(ok, line) ==
    IF line.tag = "mismatch"
    THEN LET i == FirstIndex({ n \in 1..Len(ok) : to_string(ok[n]) = line.arg })
         IN  IF i = 0 THEN ok ELSE swap_remove(ok, i)
    ELSE ok

RECURSIVE MismatchLines(_, _)
MismatchLines(ok, lines) ==
    IF lines = <<>> THEN ok ELSE MismatchLines(MismatchLine(ok, Head(lines)), Tail(lines))

\* PropertyBasedTesting::analyze_pbt_output (pbt.rs lines 261-283)
analyze_pbt_output(functions, lines) ==
    Returned([status |-> "Ok", ok |-> MismatchLines(functions, lines), fail |-> <<>>])

\* DifferentialFuzzing::analyze_fuzzer_output (df.rs lines 320-342)
analyze_fuzzer_output(functions, lines) ==
    Returned([status |-> "Ok", ok |-> MismatchLines(functions, lines), fail |-> <<>>])

\* alive2.rs lines 75-88, one iteration of the loop; st holds func_name, ok
\* and whether an unwrap has panicked.  The name pushed to ok is a String:
\* it is represented as a Path of one segment.
Alive2Line(st, line) ==
    IF st.panic THEN st
    ELSE IF line.tag \in {"define", "define_bare"}
    THEN IF st.func_name.some THEN st
         ELSE IF line.tag = "define_bare" THEN [st EXCEPT !.panic = TRUE]
         ELSE [st EXCEPT !.func_name =
                  Some(replace(line.arg, <<"_", "_", "_">>, <<":", ":">>))]
    ELSE IF line.tag = "correct"
    THEN IF st.func_name.some
         THEN [st EXCEPT !.ok = Append(@, << st.func_name.val >>), !.func_name = None]
         ELSE [st EXCEPT !.panic = TRUE]
    ELSE IF line.tag = "error" THEN [st EXCEPT !.func_name = None]
    ELSE st

RECURSIVE Alive2Lines(_, _)
Alive2Lines(st, lines) ==
    IF lines = <<>> THEN st ELSE Alive2Lines(Alive2Line(st, Head(lines)), Tail(lines))

\* Alive2::analyze_alive2_output (steps/alive2.rs lines 64-91)
analyze_alive2_output(lines) ==
    LET st == Alive2Lines([func_name |-> None, ok |-> <<>>, panic |-> FALSE], lines)
    IN  IF st.panic THEN Panicked
        ELSE Returned([status |-> "Ok", ok |-> st.ok, fail |-> <<>>])

OutFrame == UNCHANGED <<pc, src1_unique_funcs, src2_unique_funcs, src1_inst_types,
                        src2_inst_types, preconditions, constructors, getters,
                        unchecked_funcs, verified_funcs, tested_funcs, components,
                        idx, res, invoked, view, log_failed, report, exit_status,
                        input, common_funcs, updated_common_funcs, genvars,
                        out_engine, out_functions, out_lines, runvars, sigvars,
                        tyvars, rtvars>>

\* the analysis returns or panics
Outcome(o) ==
    /\ out_pc' = IF o.panic THEN "panicked" ELSE "parsed"
    /\ out_res' = o.res

AnalyzeKani ==
    /\ out_pc = "written" /\ out_engine = "kani"
    /\ Outcome(analyze_kani_output(out_lines))
    /\ OutFrame

AnalyzePbt ==
    /\ out_pc = "written" /\ out_engine = "pbt"
    /\ Outcome(analyze_pbt_output(out_functions, out_lines))
    /\ OutFrame

AnalyzeFuzzer ==
    /\ out_pc = "written" /\ out_engine = "df"
    /\ Outcome(analyze_fuzzer_output(out_functions, out_lines))
    /\ OutFrame

AnalyzeAlive2 ==
    /\ out_pc = "written" /\ out_engine = "alive2"
    /\ Outcome(analyze_alive2_output(out_lines))
    /\ OutFrame

\* fn f, mod m { fn f }, mod m_ { fn g } and a name of no harness function
NameF == << <<"f">> >>
NameMF == << <<"m">>, <<"f">> >>
NameM_G == << <<"m", "_">>, <<"g">> >>
NameUnknown == << <<"x">> >>

\* the function lists of the harnesses
HarnessLists == { << NameF >>, << NameF, NameMF >>, << NameMF, NameM_G >> }

Engines == {"kani", "pbt", "df", "alive2"}

\* a line that matches no pattern of any analysis
OtherLine == Line("other", <<>>, NoPath)

\* The lines an output file of the engine may hold for a harness of the
\* functions fs.  Kani prints `Checking harness check_<flat name>.` for a
\* harness (kani.rs lines 34, 75) and a VERIFICATION line; the sampling
\* harnesses print `MISMATCH: <name>` for a method (pbt.rs line 114) and
\* `MISMATCH <name>` for a function (pbt.rs line 53), which the pattern
\* `MISMATCH:\s*(\S+)` does not match; alive-tv prints the two definitions,
\* and a correctness or an ERROR line.
OutputLines(engine, fs) ==
    CASE engine = "kani" ->
            { Line("header", to_ident(n), n) : n \in Range(fs) }
                \cup { Line("success", <<>>, NoPath), Line("failure", <<>>, NoPath),
                       OtherLine }
      [] engine \in {"pbt", "df"} ->
            { Line("mismatch", to_string(n), n) : n \in Range(fs) \cup {NameUnknown} }
                \cup { Line("mismatch_no_colon", to_string(n), n) : n \in Range(fs) }
                \cup { OtherLine }
      [] engine = "alive2" ->
            { Line("define", to_ident(n), n) : n \in Range(fs) }
                \cup { Line("define_bare", <<>>, NoPath), Line("correct", <<>>, NoPath),
                       Line("error", <<>>, NoPath), OtherLine }

\* an engine has written its output file and the analysis is about to read it
InitOut ==
    /\ CheckerIdle
    /\ GenIdle
    /\ RunIdle
    /\ SigIdle
    /\ TyIdle
    /\ RtIdle
    /\ out_pc = "written"
    /\ out_res = NoResult
    /\ \E engine \in Engines, fs \in HarnessLists :
          /\ out_engine = engine
          /\ out_functions = fs
          /\ out_lines \in SeqsUpTo(OutputLines(engine, fs), MaxLines)

NextOut == AnalyzeKani \/ AnalyzePbt \/ AnalyzeFuzzer \/ AnalyzeAlive2

SpecOut == InitOut /\ [][NextOut]_vars

----------------------------------------------------------------------------
(* Properties of the output analyses.                                      *)

\* the names the ok list of a Kani analysis is to hold: the function of each
\* harness header that is followed by a success marker before any failure
\* marker or other header; st holds the pending function and the names
RECURSIVE HarnessVerdicts(_, _)
HarnessVerdicts(st, lines) ==
    IF lines = <<>> THEN st.ok
    ELSE LET line == Head(lines)
         IN  HarnessVerdicts(
                 IF line.tag = "header" THEN [st EXCEPT !.pending = Some(line.of)]
                 ELSE IF line.tag = "success" /\ st.pending.some
                 THEN [pending |-> None, ok |-> Append(st.ok, st.pending.val)]
                 ELSE IF line.tag = "failure" THEN [st EXCEPT !.pending = None]
                 ELSE st,
                 Tail(lines))

\* C14: the ok list of analyze_kani_output holds, in order and once each,
\* the qualified name of every harness whose header is followed by a success
\* marker before any failure marker or other header, and nothing else.
C14_OkNamesTheHarness ==
    (out_pc = "parsed" /\ out_engine = "kani") =>
        out_res.ok = HarnessVerdicts([pending |-> None, ok |-> <<>>], out_lines)

\* C15: after the analysis of a property-based-testing or differential-
\* fuzzing output, every function of the harness that a line
\* `MISMATCH: <qualified name>` names is in fail and not in ok.
C15_MismatchIsFail ==
    (out_pc = "parsed" /\ out_engine \in {"pbt", "df"}) =>
        \A i \in 1..Len(out_lines) :
            (out_lines[i].tag = "mismatch" /\ out_lines[i].of \in Range(out_functions)) =>
                /\ out_lines[i].of \in Range(out_res.fail)
                /\ out_lines[i].of \notin Range(out_res.ok)

\* the analysis of the engine, on the functions and the lines
analyze(engine, functions, lines) ==
    CASE engine = "kani" -> analyze_kani_output(lines)
      [] engine = "pbt" -> analyze_pbt_output(functions, lines)
      [] engine = "df" -> analyze_fuzzer_output(functions, lines)
      [] engine = "alive2" -> analyze_alive2_output(lines)

\* the line matches a pattern of the engine's analysis
Recognised(engine, line) ==
    CASE engine = "kani" -> line.tag \in {"header", "success", "failure"}
      [] engine \in {"pbt", "df"} -> line.tag = "mismatch"
      [] engine = "alive2" -> line.tag \in {"define", "define_bare", "correct", "error"}

\* C16: the analysis of every engine returns, for every sequence of lines, a
\* CheckResult with status Ok and never faults, and the lines that match none
\* of its patterns change nothing: the result is the one of the file without
\* them.
C16_AnalysesTotal ==
    /\ out_pc # "panicked"
    /\ out_pc = "parsed" =>
          /\ out_res.status = "Ok"
          /\ Returned(out_res) =
                analyze(out_engine, out_functions,
                        SelectSeq(out_lines, LAMBDA l : Recognised(out_engine, l)))

----------------------------------------------------------------------------
(* Component::run of Kani, PropertyBasedTesting and DifferentialFuzzing    *)
(* (src/src/components/kani.rs lines 282-303, pbt.rs lines 306-327, df.rs  *)
(* lines 365-388).  The three bodies are the same up to the paths.  The    *)
(* outcome of an external command or file operation is a choice.           *)

\* the components that build a harness project
HarnessEngines == {"kani", "pbt", "df"}

\* the local harness_path of run()
harness_path(engine) ==
    CASE engine = "kani" -> "kani_harness"
      [] engine = "pbt" -> "pbt_harness"
      [] engine = "df" -> "/Users/jingx/Dev/playground/fuzz/harness"

\* the harness_path of the executing run()
RunDir == harness_path(run_engines[run_idx])

RunFrame == UNCHANGED <<pc, src1_unique_funcs, src2_unique_funcs, src1_inst_types,
                        src2_inst_types, preconditions, constructors, getters,
                        unchecked_funcs, verified_funcs, tested_funcs, components,
                        idx, res, invoked, view, log_failed, report, exit_status,
                        input, common_funcs, updated_common_funcs, genvars,
                        outvars, run_engines, sigvars, tyvars, rtvars>>

\* `return CheckResult::failed(e)`
ReturnFailed ==
    /\ run_status' = "Err"
    /\ run_pc' = "returned"

\* run_all calls run() of the next component, which generates the harness
\* (kani.rs lines 283-284)
StartRun ==
    /\ run_pc = "next"
    /\ run_idx < Len(run_engines)
    /\ run_idx' = run_idx + 1
    /\ run_pc' = "start"
    /\ run_made' = FALSE
    /\ run_status' = "none"
    /\ dirs' = dirs
    /\ RunFrame

\* kani.rs lines 286-289: create_harness_project (lines 167-212).  `cargo
\* new` fails when the destination exists; when it succeeds the directory
\* exists, whatever fails afterwards (a write, `cargo fmt`).
CreateHarnessProject ==
    /\ run_pc = "start"
    /\ \E outcome \in {"new_failed", "later_failed", "created"} :
          /\ RunDir \in dirs => outcome = "new_failed"
          /\ IF outcome = "new_failed"
             THEN /\ dirs' = dirs
                  /\ run_made' = run_made
                  /\ ReturnFailed
             ELSE /\ dirs' = dirs \cup {RunDir}
                  /\ run_made' = TRUE
                  /\ IF outcome = "later_failed"
                     THEN ReturnFailed
                     ELSE run_pc' = "created" /\ run_status' = run_status
    /\ run_idx' = run_idx
    /\ RunFrame

\* kani.rs lines 291-295: run_kani / run_test / run_fuzzer
RunEngine ==
    /\ run_pc = "created"
    /\ \/ ReturnFailed
       \/ run_pc' = "ran" /\ run_status' = run_status
    /\ UNCHANGED <<run_idx, run_made, dirs>>
    /\ RunFrame

\* kani.rs line 296: the output file is analysed
AnalyzeOutput ==
    /\ run_pc = "ran"
    /\ run_pc' = "analysed"
    /\ UNCHANGED <<run_idx, run_made, run_status, dirs>>
    /\ RunFrame

\* kani.rs lines 298-302: remove_harness_project (lines 262-266), then the
\* analysis result is returned
RemoveHarnessProject ==
    /\ run_pc = "analysed"
    /\ \/ dirs' = dirs /\ ReturnFailed
       \/ /\ dirs' = dirs \ {RunDir}
          /\ run_status' = "Ok"
          /\ run_pc' = "returned"
    /\ UNCHANGED <<run_idx, run_made>>
    /\ RunFrame

\* run() has returned to run_all, which goes on with the loop
FinishRun ==
    /\ run_pc = "returned"
    /\ run_pc' = "next"
    /\ UNCHANGED <<run_idx, run_made, run_status, dirs>>
    /\ RunFrame

\* the components run in some order, in a workspace without harness projects
InitRun ==
    /\ CheckerIdle
    /\ GenIdle
    /\ OutIdle
    /\ SigIdle
    /\ TyIdle
    /\ RtIdle
    /\ run_engines \in ListsUpTo(HarnessEngines, Cardinality(HarnessEngines))
    /\ run_idx = 0
    /\ run_pc = "next"
    /\ run_made = FALSE
    /\ run_status = "none"
    /\ dirs = {}

NextRun ==
    \/ StartRun \/ CreateHarnessProject \/ RunEngine \/ AnalyzeOutput
    \/ RemoveHarnessProject \/ FinishRun

SpecRun == InitRun /\ [][NextRun]_vars

\* C17: whenever run() of Kani, PropertyBasedTesting or DifferentialFuzzing
\* has returned, on whatever path, the harness project directory it created
\* in this run does not exist.
C17_HarnessDirRemoved ==
    (run_pc = "returned" /\ run_made) => RunDir \notin dirs

----------------------------------------------------------------------------
(* Further properties of Checker::new and Checker::run_all.                *)

\* the constructor and getter pairs the checker holds
SupportPairs == Range(constructors) \cup Range(getters)

\* C18: when Checker::new has returned, Unchecked holds exactly the matched
\* pairs that are neither constructors nor getters, in order, and Verified
\* and Tested are empty; the constructors and getters are the matched pairs
\* named verieasy_new and verieasy_get; and in every state of the run no
\* constructor or getter pair is in Unchecked, Verified or Tested.
C18_SupportNeverInBuckets ==
    pc # "new" =>
        /\ SupportPairs \cap AllBucketPairs = {}
        /\ \A f \in Range(updated_common_funcs) :
              f.metadata.signature.ident \in {"verieasy_new", "verieasy_get"}
                  <=> f \in SupportPairs
        /\ (pc = "loop" /\ invoked = <<>>) =>
              /\ unchecked_funcs =
                    SelectSeq(updated_common_funcs, LAMBDA f : f \notin SupportPairs)
              /\ verified_funcs = <<>>
              /\ tested_funcs = <<>>

\* C18 witness: the run is over for sources with a constructor, a getter and
\* a method; a component reported the constructor's and the method's name ok
\* and the method was moved.
C18_Witness ==
    /\ pc = "done"
    /\ constructors # <<>>
    /\ getters # <<>>
    /\ Names(verified_funcs) \cup Names(tested_funcs) # {}
    /\ unchecked_funcs = <<>>

\* C21: run_all invokes the components in their configured order, each at
\* most once, and the next one only after the one before has returned; from
\* the call of a component to its return no bucket changes (the component
\* reads Unchecked as it is), and the buckets change only while run_all
\* handles a returned result (or Checker::new fills Unchecked).
C21_SequentialInvocation ==
    /\ [] ( /\ Len(invoked) <= Len(components)
            /\ \A i \in 1..Len(invoked) : invoked[i] = i
            /\ pc = "running" => (invoked # <<>> /\ view = unchecked_funcs) )
    /\ [][ /\ invoked' # invoked =>
                 /\ pc = "loop"
                 /\ pc' = "running"
                 /\ invoked' = Append(invoked, Len(invoked) + 1)
           /\ pc = "running" =>
                 /\ buckets' = buckets
                 /\ invoked' = invoked
                 /\ pc' = "returned"
           /\ buckets' # buckets => pc \in {"new", "returned"} ]_vars

\* C21 witness: the run is over, the three components were invoked one after
\* the other, and the results of a formal and of a testing component moved
\* pairs in between.
C21_Witness ==
    /\ pc = "done"
    /\ invoked = <<1, 2, 3>>
    /\ verified_funcs # <<>>
    /\ tested_funcs # <<>>

\* C22: once the component loop has ended, by exhausting the components or
\* by the break on a non-empty fail list, run_all reports incomplete coverage
\* with exactly the names of the pairs still in Unchecked, in order, when
\* Unchecked is not empty, and success otherwise; nothing is reported before.
C22_ReportFollowsUnchecked ==
    IF pc \in {"reported", "done"}
    THEN IF unchecked_funcs # <<>>
         THEN /\ report.kind = "unchecked_remain"
              /\ report.names =
                    [ i \in 1..Len(unchecked_funcs) |-> unchecked_funcs[i].metadata.name ]
         ELSE /\ report.kind = "all_checked"
              /\ report.names = <<>>
    ELSE report = NoReport

\* C22 witness: the loop was left by the break on a non-empty fail list after
\* an earlier result had moved a pair, and two names were reported as still
\* unchecked.
C22_Witness ==
    /\ pc = "done"
    /\ log_failed # <<>>
    /\ Len(invoked) < Len(components)
    /\ report.kind = "unchecked_remain"
    /\ Len(report.names) = 2
    /\ Names(verified_funcs) \cup Names(tested_funcs) # {}

\* C28: at the end of a run no name that was reported in the fail list of a
\* handled result (and logged as failed) is the name of a pair in Verified or
\* Tested.
C28_FailedNeverChecked ==
    pc = "done" =>
        Range(log_failed) \cap (Names(verified_funcs) \cup Names(tested_funcs)) = {}

----------------------------------------------------------------------------
(* Signature::eq (src/src/defs/function.rs lines 9-29) on its own.         *)

\* longest parameter list of the compared signatures
MaxParams == 2

\* Vec<u32>, Vec<u8>, &u32 and &str
TyVecU32 == PathTy(<<"Vec">>, << TyU32 >>)
TyVecU8 == PathTy(<<"Vec">>, << PathTy(<<"u8">>, <<>>) >>)
TyRefU32 == OtherTy("reference", <<"u32">>)
TyRefStr == OtherTy("reference", <<"str">>)

\* the parameters and the return types of the compared signatures
SigParams == {Receiver} \cup { Typed(t) : t \in {TyU32, TyVecU32, TyVecU8, TyRefU32, TyRefStr} }
SigOutputs == {NoReturn, Returns(TyU32), Returns(TyRefU32)}

SigsNamed(idents) ==
    { Signature(t[1], t[2], t[3]) :
        t \in idents \X SeqsUpTo(SigParams, MaxParams) \X SigOutputs }

SigFrame == UNCHANGED <<pc, src1_unique_funcs, src2_unique_funcs, src1_inst_types,
                        src2_inst_types, preconditions, constructors, getters,
                        unchecked_funcs, verified_funcs, tested_funcs, components,
                        idx, res, invoked, view, log_failed, report, exit_status,
                        input, common_funcs, updated_common_funcs, genvars,
                        outvars, runvars, sig_self, sig_other, tyvars, rtvars>>

\* `self == other` on two signatures
SignatureEqCall ==
    /\ sig_pc = "call"
    /\ sig_equal' = SignatureEq(sig_self, sig_other)
    /\ sig_pc' = "returned"
    /\ SigFrame

InitSig ==
    /\ CheckerIdle
    /\ GenIdle
    /\ OutIdle
    /\ RunIdle
    /\ TyIdle
    /\ RtIdle
    /\ sig_pc = "call"
    /\ sig_self \in SigsNamed({"foo"})
    /\ sig_other \in SigsNamed({"foo", "bar"})
    /\ sig_equal = FALSE

NextSig == SignatureEqCall

SpecSig == InitSig /\ [][NextSig]_vars

\* structural equality of two types: path types with the same rendered path,
\* generic arguments ignored; any other kind of type only with the same type
StructurallyEqual(a, b) ==
    IF a.kind = "path" /\ b.kind = "path" THEN a.segs = b.segs ELSE a = b

\* C19: Signature::eq returns true exactly for two signatures with the same
\* identifier, the same parameter count, at every position two receivers or
\* two typed parameters of structurally equal types, and return types both
\* absent or both present and structurally equal; typed parameters of
\* different reference types are not equal.
C19_EqualIffStructurallyEqual ==
    sig_pc = "returned" =>
        (sig_equal <=>
            /\ sig_self.ident = sig_other.ident
            /\ Len(sig_self.inputs) = Len(sig_other.inputs)
            /\ \A i \in 1..Len(sig_self.inputs) :
                  i <= Len(sig_other.inputs) =>
                      \/ sig_self.inputs[i].recv /\ sig_other.inputs[i].recv
                      \/ /\ ~sig_self.inputs[i].recv /\ ~sig_other.inputs[i].recv
                         /\ StructurallyEqual(sig_self.inputs[i].ty, sig_other.inputs[i].ty)
            /\ \/ ~sig_self.output.present /\ ~sig_other.output.present
               \/ /\ sig_self.output.present /\ sig_other.output.present
                  /\ StructurallyEqual(sig_self.output.ty, sig_other.output.ty))

----------------------------------------------------------------------------
(* Type::eq_ignore_generics (src/src/defs/types.rs lines 20-27) on its own. *)

\* struct Foo<T = u32>: `Foo`, `Foo<T>` and `Foo<A>` name it; Bar likewise
TypePool ==
    { TyFoo, TyFooT, TyFooA, Precise(<<"Bar">>),
      Generic(<<"Bar">>, << Precise(<<"T">>) >>) }

\* the base path of a type: PreciseType.0 or GenericType.path
base_path(ty) == ty.path

TyFrame == UNCHANGED <<pc, src1_unique_funcs, src2_unique_funcs, src1_inst_types,
                       src2_inst_types, preconditions, constructors, getters,
                       unchecked_funcs, verified_funcs, tested_funcs, components,
                       idx, res, invoked, view, log_failed, report, exit_status,
                       input, common_funcs, updated_common_funcs, genvars,
                       outvars, runvars, sigvars, ty_args, rtvars>>

\* `a.eq_ignore_generics(b)` for every two of the types
EqIgnoreGenericsCalls ==
    /\ ty_pc = "call"
    /\ ty_eq' = [ p \in (DOMAIN ty_args) \X (DOMAIN ty_args) |->
                    eq_ignore_generics(ty_args[p[1]], ty_args[p[2]]) ]
    /\ ty_pc' = "returned"
    /\ TyFrame

InitTy ==
    /\ CheckerIdle
    /\ GenIdle
    /\ OutIdle
    /\ RunIdle
    /\ SigIdle
    /\ RtIdle
    /\ ty_pc = "call"
    /\ ty_args \in [1..3 -> TypePool]
    /\ ty_eq = EmptyMap

NextTy == EqIgnoreGenericsCalls

SpecTy == InitTy /\ [][NextTy]_vars

\* C23: eq_ignore_generics(a, b) is true exactly when the base paths of a
\* and b are equal, whatever their generic arguments are and whichever
\* variant (Precise or Generic) each is; it is reflexive, symmetric and
\* transitive.
C23_EqualIffSameBasePath ==
    ty_pc = "returned" =>
        /\ \A i, j \in DOMAIN ty_args :
              ty_eq[<<i, j>>] <=> (base_path(ty_args[i]) = base_path(ty_args[j]))
        /\ \A i \in DOMAIN ty_args : ty_eq[<<i, i>>]
        /\ \A i, j \in DOMAIN ty_args : ty_eq[<<i, j>>] => ty_eq[<<j, i>>]
        /\ \A i, j, k \in DOMAIN ty_args :
              (ty_eq[<<i, j>>] /\ ty_eq[<<j, k>>]) => ty_eq[<<i, k>>]

----------------------------------------------------------------------------
(* Further properties of FunctionClassifier and HarnessGenerator.          *)

\* the entries of the Getters bucket
GetterEntries == { classifier.getters[t] : t \in DOMAIN classifier.getters }

\* the last pair of the input with the identifier marker on the owning type t
LastMarked(t, marker) ==
    LET hits == { i \in 1..Len(gen_input) :
                    /\ gen_input[i].metadata.impl_type = t
                    /\ gen_input[i].metadata.signature.ident = marker }
    IN  gen_input[CHOOSE i \in hits : \A j \in hits : j <= i]

\* the first applicable rule of the pair f, in the order constructor marker,
\* getter marker, receiver, otherwise Function
RuleOf(f) ==
    IF f.metadata.signature.ident = "verieasy_new" THEN "constructor"
    ELSE IF f.metadata.signature.ident = "verieasy_get" THEN "getter"
    ELSE IF WithReceiver(f) THEN "method"
    ELSE "function"

\* the same rules, applied to the pairs with an owning type only: a pair
\* without an owning type is a Function
RuleInsideImpl(f) ==
    IF f.metadata.impl_type = NoType THEN "function" ELSE RuleOf(f)

\* the pair f was assigned to the bucket of the rule and to no other bucket;
\* in a map it is registered under its owning type, where the last pair
\* registered for that type is the entry
AssignedBy(f, rule) ==
    /\ (f \in Range(classifier.functions)) <=> (rule = "function")
    /\ (f \in Range(classifier.methods)) <=> (rule = "method")
    /\ rule = "constructor" =>
          /\ f.metadata.impl_type \in DOMAIN classifier.constructors
          /\ classifier.constructors[f.metadata.impl_type] =
                LastMarked(f.metadata.impl_type, "verieasy_new")
    /\ rule # "constructor" => f \notin ConstructorEntries
    /\ rule = "getter" =>
          /\ f.metadata.impl_type \in DOMAIN classifier.getters
          /\ classifier.getters[f.metadata.impl_type] =
                LastMarked(f.metadata.impl_type, "verieasy_get")
    /\ rule # "getter" => f \notin GetterEntries

\* every entry of a map is a pair of the input registered under its own
\* owning type, and the lists hold pairs of the input in input order
BucketsFromInput ==
    /\ \A t \in DOMAIN classifier.constructors :
          /\ classifier.constructors[t] \in Range(gen_input)
          /\ classifier.constructors[t].metadata.impl_type = t
    /\ \A t \in DOMAIN classifier.getters :
          /\ classifier.getters[t] \in Range(gen_input)
          /\ classifier.getters[t].metadata.impl_type = t
    /\ classifier.functions =
          SelectSeq(gen_input, LAMBDA f : f \in Range(classifier.functions))
    /\ classifier.methods =
          SelectSeq(gen_input, LAMBDA f : f \in Range(classifier.methods))

\* C24 as stated: classify assigns every pair of the input to one bucket by
\* the first applicable rule in the order constructor marker, getter marker,
\* receiver, otherwise Function; a marked pair goes to the map keyed by its
\* owning type, where a later pair of the same owning type replaces it.
C24_FirstRuleWins ==
    gen_pc = "classified" =>
        /\ \A i \in 1..Len(gen_input) : AssignedBy(gen_input[i], RuleOf(gen_input[i]))
        /\ BucketsFromInput

\* C24 (amended): the rules constructor marker, getter marker, receiver are
\* applied, in this order, to the pairs that have an owning type; a pair
\* without an owning type is a Function whatever its identifier and
\* parameters are.  Each map holds, per owning type, the last pair registered.
C24_FirstRuleWinsInsideImpl ==
    gen_pc = "classified" =>
        /\ \A i \in 1..Len(gen_input) :
              AssignedBy(gen_input[i], RuleInsideImpl(gen_input[i]))
        /\ BucketsFromInput

\* C24 witness: classify has run on two verieasy_new pairs of one owning
\* type, of which the later one is registered, and on a pair without owning
\* type that carries a reserved identifier or a receiver and is a Function.
C24_Witness ==
    /\ gen_pc = "classified"
    /\ \E i, j, k \in 1..Len(gen_input) :
          /\ i < j
          /\ RuleInsideImpl(gen_input[i]) = "constructor"
          /\ RuleInsideImpl(gen_input[j]) = "constructor"
          /\ gen_input[i].metadata.impl_type = gen_input[j].metadata.impl_type
          /\ gen_input[i] \notin ConstructorEntries
          /\ gen_input[j] \in ConstructorEntries
          /\ gen_input[k].metadata.impl_type = NoType
          /\ RuleOf(gen_input[k]) # "function"
          /\ gen_input[k] \in Range(classifier.functions)

\* C25: whatever list of matched pairs HarnessGenerator::new is given, after
\* it every surviving Method has an owning type and the Constructors map has
\* an entry for it, and no constructor lookup of generate_all_arg_structs or
\* generate_harness_for_method faults while generate_harness runs.
C25_SurvivingMethodsHaveConstructor ==
    /\ gen_pc # "panicked"
    /\ Pruned =>
          \A i \in 1..Len(classifier.methods) :
              /\ classifier.methods[i].metadata.impl_type # NoType
              /\ classifier.methods[i].metadata.impl_type \in DOMAIN classifier.constructors

\* C25 witness: generate_harness has finished for a list with a method whose
\* owning type has no constructor, which was dropped, and a method whose
\* constructor was looked up for its harness.
C25_Witness ==
    /\ gen_pc = "done"
    /\ \E i \in 1..Len(gen_input) :
          /\ RuleInsideImpl(gen_input[i]) = "method"
          /\ gen_input[i] \notin Range(classifier.methods)
    /\ \E n \in 1..Len(hooks) :
          /\ hooks[n].hook = "make_harness_for_method"
          /\ hooks[n].constructor # NoPath

----------------------------------------------------------------------------
(* Further properties of Checker::new (preprocess).                        *)

\* C26: after matching, a function record is in its source's leftover
\* (version-unique) list exactly when it takes part in no matched pair: a
\* record whose body went into a matched pair is removed from its list and a
\* record that was matched with nothing is retained.
C26_LeftoverIffUnmatched ==
    pc # "new" =>
        /\ \A i \in 1..Len(input.funcs1) :
              (input.funcs1[i] \in Range(src1_unique_funcs)) <=>
                  ~ \E k \in 1..Len(common_funcs) :
                        common_funcs[k].body1 = input.funcs1[i].body
        /\ \A j \in 1..Len(input.funcs2) :
              (input.funcs2[j] \in Range(src2_unique_funcs)) <=>
                  ~ \E k \in 1..Len(common_funcs) :
                        common_funcs[k].body2 = input.funcs2[j].body

----------------------------------------------------------------------------
(* The mismatch line of the sampling harnesses and the pattern that reads  *)
(* it (src/src/components/pbt.rs and df.rs), on the characters.            *)

\* pbt.rs line 53, df.rs line 57: println!("MISMATCH {}", fn_name_string) in
\* the comparison routine of a free function
function_mismatch_report(fn_name_string) ==
    <<"M", "I", "S", "M", "A", "T", "C", "H", " ">> \o fn_name_string

\* pbt.rs line 114, df.rs line 87: println!("MISMATCH: {}", fn_name_string)
\* in the comparison routine of a method
method_mismatch_report(fn_name_string) ==
    <<"M", "I", "S", "M", "A", "T", "C", "H", ":", " ">> \o fn_name_string

RECURSIVE SkipSpaces(_)
\* `\s*`: the text after its leading white space
SkipSpaces(s) == IF s # <<>> /\ Head(s) = " " THEN SkipSpaces(Tail(s)) ELSE s

RECURSIVE TakeNonSpace(_)
\* `(\S+)`: the longest prefix without white space
TakeNonSpace(s) ==
    IF s = <<>> \/ Head(s) = " " THEN <<>>
    ELSE << Head(s) >> \o TakeNonSpace(Tail(s))

RECURSIVE mismatch_capture(_)
\* pbt.rs lines 269-275, df.rs lines 328-334: re.captures(line)[1] for the
\* pattern `MISMATCH:\s*(\S+)`, leftmost match, None when nothing matches
mismatch_capture(text) ==
    IF text = <<>> THEN None
    ELSE LET pattern == <<"M", "I", "S", "M", "A", "T", "C", "H", ":">>
             name == IF StartsWith(text, pattern)
                     THEN TakeNonSpace(SkipSpaces(SubSeq(text, Len(pattern) + 1, Len(text))))
                     ELSE <<>>
         IN  IF name # <<>> THEN Some(name) ELSE mismatch_capture(Tail(text))

\* the line a comparison routine prints when the two versions disagree
PrintedReport(line) ==
    IF line.tag = "mismatch" THEN method_mismatch_report(to_string(line.of))
    ELSE function_mismatch_report(to_string(line.of))

\* C27: whenever the comparison routine of a harnessed free function or
\* method has printed its mismatch line, that line is matched by the
\* analysis pattern with the name of the function, and the name is not left
\* in the ok list.
C27_MismatchLineIsParsed ==
    (out_pc = "parsed" /\ out_engine \in {"pbt", "df"}) =>
        \A i \in 1..Len(out_lines) :
            (/\ out_lines[i].tag \in {"mismatch", "mismatch_no_colon"}
             /\ out_lines[i].of \in Range(out_functions)) =>
                /\ mismatch_capture(PrintedReport(out_lines[i])) =
                      Some(to_string(out_lines[i].of))
                /\ out_lines[i].of \notin Range(out_res.ok)

----------------------------------------------------------------------------
(* PropertyBasedTesting::generate_harness_file (src/src/components/pbt.rs  *)
(* lines 163-185) on the checker Checker::new has built.                   *)

\* HarnessGenerator::new (generate.rs lines 137-151): the classifier of the
\* generator built for the function list
HarnessGeneratorNew(functions) ==
    remove_methods_without_constructors(
        remove_unused_constructors_and_getters(classify(functions)))

\* pbt.rs lines 170-182: the names of the functions and methods checked in
\* the harness, which analyze_pbt_output starts its ok list from
harness_functions(c) == NameSeq(c.functions) \o NameSeq(c.methods)

\* pbt.rs lines 164-182: the generator is built from checker.unchecked_funcs
\* and the names of its functions and methods are collected; generate_harness
\* (line 183) follows
generate_harness_file ==
    /\ pc = "loop"
    /\ gen_pc = "idle"
    /\ gen_input' = unchecked_funcs
    /\ classifier' = HarnessGeneratorNew(unchecked_funcs)
    /\ gen_pc' = "built"
    /\ hooks' = hooks
    /\ UNCHANGED <<pc, src1_unique_funcs, src2_unique_funcs, src1_inst_types,
                   src2_inst_types, preconditions, constructors, getters,
                   unchecked_funcs, verified_funcs, tested_funcs, components,
                   idx, res, invoked, view, log_failed, report, exit_status,
                   input, common_funcs, updated_common_funcs,
                   outvars, runvars, sigvars, tyvars, rtvars>>

InitPbt == InitNew

\* generate_harness calls the method hook for no pair here: Unchecked holds
\* no pair named verieasy_new (check.rs line 344), so no method survives
NextPbt ==
    \/ New \/ generate_harness_file \/ GenerateImports \/ GenerateAllArgStructs
    \/ HarnessForFunction \/ AdditionalCode \/ Finalize

SpecPbt == InitPbt /\ [][NextPbt]_vars

\* the pair is a method (it has an owning type and a receiver) whose owning
\* type has a matched constructor in the checker's constructors list
MethodWithConstructor(f) ==
    /\ f.metadata.impl_type # NoType
    /\ WithReceiver(f)
    /\ \E k \in 1..Len(constructors) :
          constructors[k].metadata.impl_type = f.metadata.impl_type

\* C29: in the harness PropertyBasedTesting builds for a checker, every
\* Unchecked method whose owning type has a matched constructor in the
\* checker's constructors list survives the pruning (so generate_harness
\* makes its comparison routine) and is among the names the component can
\* report ok.
C29_MethodsWithConstructorHarnessed ==
    gen_pc # "idle" =>
        \A i \in 1..Len(unchecked_funcs) :
            MethodWithConstructor(unchecked_funcs[i]) =>
                /\ unchecked_funcs[i] \in Range(classifier.methods)
                /\ unchecked_funcs[i].metadata.name \in Range(harness_functions(classifier))

----------------------------------------------------------------------------
(* The name of a Kani harness and the header Kani prints for it            *)
(* (src/src/components/kani.rs lines 34, 75 and 241-253), on characters.   *)

\* kani.rs lines 34, 75: format_ident!("check_{}", fn_name.to_ident())
harness_ident(fn_name) == <<"c", "h", "e", "c", "k", "_">> \o to_ident(fn_name)

\* the line Kani prints when it starts on a harness function
kani_header(harness) ==
    <<"C", "h", "e", "c", "k", "i", "n", "g", " ",
      "h", "a", "r", "n", "e", "s", "s", " ">> \o harness \o <<".", ".", ".">>

\* the characters of the class [0-9a-zA-Z_]
WordChars ==
    {"0", "1", "2", "3", "4", "5", "6", "7", "8", "9", "_",
     "a", "b", "c", "d", "e", "f", "g", "h", "i", "j", "k", "l", "m",
     "n", "o", "p", "q", "r", "s", "t", "u", "v", "w", "x", "y", "z",
     "A", "B", "C", "D", "E", "F", "G", "H", "I", "J", "K", "L", "M",
     "N", "O", "P", "Q", "R", "S", "T", "U", "V", "W", "X", "Y", "Z"}

RECURSIVE TakeWord(_)
\* `[0-9a-zA-Z_]+`: the longest prefix of word characters
TakeWord(s) ==
    IF s = <<>> \/ Head(s) \notin WordChars THEN <<>>
    ELSE << Head(s) >> \o TakeWord(Tail(s))

RECURSIVE header_capture(_)
\* kani.rs lines 241, 248: re.captures(line)[1] for the pattern
\* `Checking harness check_([0-9a-zA-Z_]+)\.`, None when nothing matches
header_capture(text) ==
    IF text = <<>> THEN None
    ELSE LET pattern == <<"C", "h", "e", "c", "k", "i", "n", "g", " ",
                          "h", "a", "r", "n", "e", "s", "s", " ",
                          "c", "h", "e", "c", "k", "_">>
             rest == SubSeq(text, Len(pattern) + 1, Len(text))
             word == IF StartsWith(text, pattern) THEN TakeWord(rest) ELSE <<>>
         IN  IF /\ word # <<>>
                /\ Len(rest) > Len(word)
                /\ rest[Len(word) + 1] = "."
             THEN Some(word)
             ELSE header_capture(Tail(text))

\* kani.rs lines 248-252: the name pushed to ok for the header line, when a
\* success line follows
parse_header(text) ==
    LET caps == header_capture(text)
    IN  IF caps.some
        THEN Some(from_str(replace(caps.val, <<"_", "_", "_">>, <<":", ":">>)))
        ELSE None

\* qualified names of harnessed pairs: f, m::f, m_::g, m::_g, a___b, a::b
\* and Foo::bar_1
HarnessNames ==
    { << <<"f">> >>,
      << <<"m">>, <<"f">> >>,
      << <<"m", "_">>, <<"g">> >>,
      << <<"m">>, <<"_", "g">> >>,
      << <<"a", "_", "_", "_", "b">> >>,
      << <<"a">>, <<"b">> >>,
      << <<"F", "o", "o">>, <<"b", "a", "r", "_", "1">> >> }

RtFrame == UNCHANGED <<pc, src1_unique_funcs, src2_unique_funcs, src1_inst_types,
                       src2_inst_types, preconditions, constructors, getters,
                       unchecked_funcs, verified_funcs, tested_funcs, components,
                       idx, res, invoked, view, log_failed, report, exit_status,
                       input, common_funcs, updated_common_funcs, genvars,
                       outvars, runvars, sigvars, tyvars, rt_names>>

\* the harness functions are generated for the names
MakeHarnessIdents ==
    /\ rt_pc = "named"
    /\ rt_idents' = [ i \in DOMAIN rt_names |-> harness_ident(rt_names[i]) ]
    /\ rt_pc' = "generated"
    /\ rt_parsed' = rt_parsed
    /\ RtFrame

\* Kani prints the header of each harness and the analysis parses it
ParseHeaders ==
    /\ rt_pc = "generated"
    /\ rt_parsed' = [ i \in DOMAIN rt_idents |-> parse_header(kani_header(rt_idents[i])) ]
    /\ rt_pc' = "parsed"
    /\ rt_idents' = rt_idents
    /\ RtFrame

InitRt ==
    /\ CheckerIdle
    /\ GenIdle
    /\ OutIdle
    /\ RunIdle
    /\ SigIdle
    /\ TyIdle
    /\ rt_pc = "named"
    /\ rt_names \in [1..2 -> HarnessNames]
    /\ rt_idents = <<>>
    /\ rt_parsed = <<>>

NextRt == MakeHarnessIdents \/ ParseHeaders

SpecRt == InitRt /\ [][NextRt]_vars

\* C30: for the qualified names of two harnessed pairs, the header of the
\* harness generated for each name is parsed back to exactly that name, and
\* two different names get different harness identifiers.
C30_HarnessNameRoundTrip ==
    rt_pc = "parsed" =>
        /\ \A i \in DOMAIN rt_names : rt_parsed[i] = Some(rt_names[i])
        /\ \A i, j \in DOMAIN rt_names :
              rt_names[i] # rt_names[j] => rt_idents[i] # rt_idents[j]

====
